---- MODULE Spec2Model ----
(***************************************************************************)
(* RSSI distance estimation (src/src/distance-estimator.js): the built-in  *)
(* SignalModels table, KalmanFilter, DistanceEstimator and                 *)
(* MultiRadioEstimator, as a state machine over the objects the module     *)
(* creates.                                                                *)
(*                                                                         *)
(* JavaScript numbers are modelled as fixed-point integers:                *)
(*   RSSI values (dBm)            in 1/RssiScale dBm                       *)
(*   error covariance, Q, R       in 1/CovScale                            *)
(*   Kalman gain                  in 1/GainScale                           *)
(*   distances (m), unrounded     in 1/DistScale m                         *)
(*   distances as returned        in 1/100 m (the code rounds to 2 places) *)
(*   confidence factors           in 1/ConfScale                           *)
(*   confidence as returned       in 1/100 (the code rounds to 2 places)   *)
(*   pathLossExponent             in 1/10,  referenceDistance in 1/10 m    *)
(* Objects held by reference (the entries of SignalModels) are named by    *)
(* their key, so that two estimators holding the same entry see each       *)
(* other's writes.                                                         *)
(***************************************************************************)
EXTENDS Integers, Sequences, FiniteSets, TLC

-----------------------------------------------------------------------------
(* Fixed-point scales *)

RssiScale == 100
CovScale == 10000
GainScale == 100000
DistScale == 10000
ConfScale == 100000
PowScale == 100000000
PowHalf == 10000
PowBits == 27

-----------------------------------------------------------------------------
(* Arithmetic *)

Min(a, b) == IF a < b THEN a ELSE b

Max(a, b) == IF a > b THEN a ELSE b

Abs(a) == IF a < 0 THEN -a ELSE a

\* Math.round(n / d) for d > 0: the nearest integer, halves towards +Infinity
MathRound(n, d) == (2 * n + d) \div (2 * d)

\* Math.round(x * 10) / 10 on a value in 1/RssiScale dBm
Round1(x) == MathRound(x, RssiScale \div 10) * (RssiScale \div 10)

RECURSIVE SqrtSearch(_, _, _)
SqrtSearch(n, lo, hi) ==
    IF lo >= hi THEN lo
    ELSE LET mid == (lo + hi + 1) \div 2
         IN  IF mid * mid <= n THEN SqrtSearch(n, mid, hi)
             ELSE SqrtSearch(n, lo, mid - 1)

\* floor(Math.sqrt(n)) for 0 <= n < 2^30
MathSqrt(n) == SqrtSearch(n, 0, 32767)

RECURSIVE SumRange(_, _, _)
\* s[lo] + ... + s[hi], by halves
SumRange(s, lo, hi) ==
    IF lo > hi THEN 0
    ELSE IF lo = hi THEN s[lo]
    ELSE LET mid == (lo + hi) \div 2
         IN  SumRange(s, lo, mid) + SumRange(s, mid + 1, hi)

SumSeq(s) == SumRange(s, 1, Len(s))

RECURSIVE MinRange(_, _, _)
MinRange(s, lo, hi) ==
    IF lo = hi THEN s[lo]
    ELSE LET mid == (lo + hi) \div 2
             left == MinRange(s, lo, mid)
             right == MinRange(s, mid + 1, hi)
         IN  IF left < right THEN left ELSE right

\* Math.min(...s), s not empty
MinSeq(s) == MinRange(s, 1, Len(s))

RECURSIVE MaxRange(_, _, _)
MaxRange(s, lo, hi) ==
    IF lo = hi THEN s[lo]
    ELSE LET mid == (lo + hi) \div 2
             left == MaxRange(s, lo, mid)
             right == MaxRange(s, mid + 1, hi)
         IN  IF left > right THEN left ELSE right

\* Math.max(...s), s not empty
MaxSeq(s) == MaxRange(s, 1, Len(s))

RECURSIVE Pow10Int(_)
Pow10Int(k) == IF k <= 0 THEN 1 ELSE 10 * Pow10Int(k - 1)

\* a * b / PowScale for a, b in 1/PowScale with a * b < 21 * PowScale^2
PowMul(a, b) ==
    LET a1 == a \div PowHalf
        a0 == a % PowHalf
        b1 == b \div PowHalf
        b0 == b % PowHalf
    IN  a1 * b1 + (a1 * b0 + a0 * b1) \div PowHalf + (a0 * b0) \div PowScale

\* 10^(2^-k) in 1/PowScale, k = 1 .. PowBits
Pow10Roots ==
    << 316227766, 177827941, 133352143, 115478198, 107460783, 103663293,
       101815172, 100903504, 100450736, 100225115, 100112494, 100056231,
       100028112, 100014055, 100007027, 100003514, 100001757, 100000878,
       100000439, 100000220, 100000110, 100000055, 100000027, 100000014,
       100000007, 100000003, 100000002 >>

\* 10^(r / den) in 1/PowScale for 0 <= r < den, from the binary digits of r / den
RECURSIVE Pow10Frac(_, _, _, _)
Pow10Frac(r, den, k, acc) ==
    IF k > PowBits \/ r = 0 THEN acc
    ELSE IF 2 * r >= den
         THEN Pow10Frac(2 * r - den, den, k + 1, PowMul(acc, Pow10Roots[k]))
         ELSE Pow10Frac(2 * r, den, k + 1, acc)

\* Math.pow(10, num / den) in 1/DistScale, den > 0
MathPow10(num, den) ==
    LET q == num \div den
        p == Pow10Frac(num % den, den, 1, PowScale)
        shift == 4 - q
    IN  IF shift <= 0 THEN p * Pow10Int(-shift)
        ELSE IF shift > 9 THEN 0
        ELSE (p + Pow10Int(shift) \div 2) \div Pow10Int(shift)

-----------------------------------------------------------------------------
(* null and numbers that may be null *)

Null == << >>

Num(x) == << x >>

ValueOf(v) == v[1]

-----------------------------------------------------------------------------
(* SignalModels: the built-in table.  Its entries are objects; an estimator *)
(* constructed without a custom model holds a reference to one of them.     *)

BuiltinTypes == {"BLE", "WIFI_2G", "WIFI_5G", "LORA"}

InitialSignalModels ==
    [t \in BuiltinTypes |->
        CASE t = "BLE" ->
               [name |-> "Bluetooth Low Energy",
                referenceRssi |-> -59 * RssiScale,
                referenceDistance |-> 10,
                pathLossExponent |-> 20,
                minRssi |-> -100 * RssiScale,
                maxRssi |-> -20 * RssiScale,
                maxReliableDistance |-> 30]
          [] t = "WIFI_2G" ->
               [name |-> "WiFi 2.4GHz",
                referenceRssi |-> -40 * RssiScale,
                referenceDistance |-> 10,
                pathLossExponent |-> 27,
                minRssi |-> -100 * RssiScale,
                maxRssi |-> -10 * RssiScale,
                maxReliableDistance |-> 50]
          [] t = "WIFI_5G" ->
               [name |-> "WiFi 5GHz",
                referenceRssi |-> -42 * RssiScale,
                referenceDistance |-> 10,
                pathLossExponent |-> 30,
                minRssi |-> -95 * RssiScale,
                maxRssi |-> -10 * RssiScale,
                maxReliableDistance |-> 40]
          [] t = "LORA" ->
               [name |-> "LoRa",
                referenceRssi |-> -30 * RssiScale,
                referenceDistance |-> 10,
                pathLossExponent |-> 23,
                minRssi |-> -140 * RssiScale,
                maxRssi |-> -10 * RssiScale,
                maxReliableDistance |-> 2000]]

\* A reference to the table entry SignalModels[key]
TableRef(key) == [ref |-> key]

\* A model object that only its holder references
OwnedRef(m) == [ref |-> "own", obj |-> m]

\* LookupModel falling back to another entry of the table
LookupModel_FallbackWifi(radioType, customModel) ==
    IF customModel # Null THEN OwnedRef(ValueOf(customModel))
    ELSE IF radioType \in BuiltinTypes THEN TableRef(radioType)
    ELSE TableRef("WIFI_2G")

\* customModel || SignalModels[radioType] || SignalModels.BLE
LookupModel(radioType, customModel) ==
    IF customModel # Null THEN OwnedRef(ValueOf(customModel))
    ELSE IF radioType \in BuiltinTypes THEN TableRef(radioType)
    ELSE TableRef("BLE")

\* The model object an estimator's this.model refers to, given the table
ModelOf(e, table) ==
    IF e.model.ref = "own" THEN e.model.obj ELSE table[e.model.ref]

-----------------------------------------------------------------------------
(* KalmanFilter *)

DefaultProcessNoise == 1250

DefaultMeasurementNoise == 40000

DefaultInitialEstimate == -60 * RssiScale

DefaultInitialError == CovScale

KalmanFilter_new(processNoise, measurementNoise, initialEstimate, initialError) ==
    [Q |-> processNoise,
     R |-> measurementNoise,
     estimate |-> initialEstimate,
     errorCovariance |-> initialError,
     sampleCount |-> 0]

\* KalmanGain with the sign of R slipped
KalmanGain_MinusR(predictedError, R) ==
    (predictedError * GainScale) \div (predictedError - R)

\* predictedError / (predictedError + R), in 1/GainScale
KalmanGain(predictedError, R) ==
    (predictedError * GainScale) \div (predictedError + R)

\* KalmanFilter_update adding the gain's share of the measurement itself
KalmanFilter_update_NoInnovation(kf, measurement) ==
    LET predictedEstimate == kf.estimate
        predictedError == kf.errorCovariance + kf.Q
        kalmanGain == KalmanGain(predictedError, kf.R)
    IN  [kf EXCEPT
            !.estimate = predictedEstimate
                + MathRound(kalmanGain * measurement, GainScale),
            !.errorCovariance =
                ((GainScale - kalmanGain) * predictedError + GainScale \div 2)
                    \div GainScale,
            !.sampleCount = @ + 1]

\* KalmanFilter_update leaving the predicted error in errorCovariance
KalmanFilter_update_KeepsPredicted(kf, measurement) ==
    LET predictedEstimate == kf.estimate
        predictedError == kf.errorCovariance + kf.Q
        kalmanGain == KalmanGain(predictedError, kf.R)
    IN  [kf EXCEPT
            !.estimate = predictedEstimate
                + MathRound(kalmanGain * (measurement - predictedEstimate), GainScale),
            !.errorCovariance = predictedError,
            !.sampleCount = @ + 1]

KalmanFilter_update(kf, measurement) ==
    LET predictedEstimate == kf.estimate
        predictedError == kf.errorCovariance + kf.Q
        kalmanGain == KalmanGain(predictedError, kf.R)
    IN  [kf EXCEPT
            !.estimate = predictedEstimate
                + MathRound(kalmanGain * (measurement - predictedEstimate), GainScale),
            !.errorCovariance =
                ((GainScale - kalmanGain) * predictedError + GainScale \div 2)
                    \div GainScale,
            !.sampleCount = @ + 1]

\* KalmanFilter_reset leaving sampleCount as it is
KalmanFilter_reset_KeepsCount(kf, initialEstimate) ==
    [kf EXCEPT !.estimate = initialEstimate,
               !.errorCovariance = CovScale]

KalmanFilter_reset(kf, initialEstimate) ==
    [kf EXCEPT !.estimate = initialEstimate,
               !.errorCovariance = CovScale,
               !.sampleCount = 0]

\* 1 - min(errorCovariance / maxError, 1) clamped at 0, maxError = 10, in 1/ConfScale
KalmanFilter_getConfidence(kf) ==
    Max(0, ConfScale - Min((kf.errorCovariance * ConfScale) \div (10 * CovScale), ConfScale))

-----------------------------------------------------------------------------
(* DistanceEstimator *)

MaxHistoryLength == 50

DistanceEstimator_new(radioType, customModel, table) ==
    LET model == LookupModel(radioType, customModel)
        referenceRssi == IF model.ref = "own" THEN model.obj.referenceRssi
                         ELSE table[model.ref].referenceRssi
    IN  [model |-> model,
         kalmanFilter |-> KalmanFilter_new(DefaultProcessNoise, DefaultMeasurementNoise,
                                           referenceRssi, DefaultInitialError),
         rawHistory |-> << >>,
         maxHistoryLength |-> MaxHistoryLength]

\* OutOfRange with the upper bound forgotten
OutOfRange_LowerOnly(model, rssi) == rssi < model.minRssi

\* OutOfRange with the bounds excluded from the valid range
OutOfRange_Exclusive(model, rssi) == rssi <= model.minRssi \/ rssi >= model.maxRssi

\* rssi < model.minRssi || rssi > model.maxRssi
OutOfRange(model, rssi) == rssi < model.minRssi \/ rssi > model.maxRssi

\* PushHistory trimming at length >= maxHistoryLength
PushHistory_TrimAtLength(e, rssi, timestamp) ==
    LET pushed == Append(e.rawHistory, [rssi |-> rssi, timestamp |-> timestamp])
    IN  IF Len(pushed) >= e.maxHistoryLength THEN Tail(pushed) ELSE pushed

\* this.rawHistory.push(...) followed by the trim
PushHistory(e, rssi, timestamp) ==
    LET pushed == Append(e.rawHistory, [rssi |-> rssi, timestamp |-> timestamp])
    IN  IF Len(pushed) > e.maxHistoryLength THEN Tail(pushed) ELSE pushed

\* PathLossDistance with the sign of the exponent slipped
PathLossDistance_SignSlip(model, filteredRssi) ==
    LET pow == MathPow10(filteredRssi - model.referenceRssi,
                         RssiScale * model.pathLossExponent)
    IN  (pow \div 10) * model.referenceDistance
            + ((pow % 10) * model.referenceDistance) \div 10

\* referenceDistance * Math.pow(10, (referenceRssi - filteredRssi) / (10 * pathLossExponent)),
\* in 1/DistScale m
PathLossDistance(model, filteredRssi) ==
    LET pow == MathPow10(model.referenceRssi - filteredRssi,
                         RssiScale * model.pathLossExponent)
    IN  (pow \div 10) * model.referenceDistance
            + ((pow % 10) * model.referenceDistance) \div 10

HistoryValues(e) == [i \in 1 .. Len(e.rawHistory) |-> e.rawHistory[i].rssi]

RECURSIVE SumSquares(_, _, _, _, _)
\* the quotients and remainders of (val - mean)^2 by n, summed over
\* values[lo .. hi]: <<sum of q, sum of r>>
SumSquares(values, mean, n, lo, hi) ==
    IF lo > hi THEN << 0, 0 >>
    ELSE IF lo = hi
         THEN LET sq == (values[lo] - mean) * (values[lo] - mean)
              IN  << sq \div n, sq % n >>
    ELSE LET mid == (lo + hi) \div 2
             left == SumSquares(values, mean, n, lo, mid)
             right == SumSquares(values, mean, n, mid + 1, hi)
         IN  << left[1] + right[1], left[2] + right[2] >>

\* population variance of the history, in 1/RssiScale^2
Variance(values) ==
    LET n == Len(values)
        mean == MathRound(SumSeq(values), n)
        s == SumSquares(values, mean, n, 1, n)
    IN  s[1] + (s[2] \div n)

\* calculateRssiStability returning min(stdDev / 10, 1) itself
calculateRssiStability_Spread(e) ==
    IF Len(e.rawHistory) < 3 THEN ConfScale \div 2
    ELSE LET stdDev == MathSqrt(Variance(HistoryValues(e)))
         IN  Min((stdDev * ConfScale) \div (10 * RssiScale), ConfScale)

\* 1 - min(stdDev / 10, 1), or 0.5 with fewer than 3 readings, in 1/ConfScale
calculateRssiStability(e) ==
    IF Len(e.rawHistory) < 3 THEN ConfScale \div 2
    ELSE LET stdDev == MathSqrt(Variance(HistoryValues(e)))
         IN  ConfScale - Min((stdDev * ConfScale) \div (10 * RssiScale), ConfScale)

\* distance <= maxReliableDistance, distance in 1/DistScale m
IsReliable(model, distance) == distance <= model.maxReliableDistance * DistScale

\* the four factors, each in 1/ConfScale
ConfidenceFactors(e, model, distance) ==
    [filterConfidence |-> KalmanFilter_getConfidence(e.kalmanFilter),
     sampleConfidence |-> Min((Len(e.rawHistory) * ConfScale) \div 10, ConfScale),
     varianceConfidence |-> calculateRssiStability(e),
     distanceConfidence |->
        IF IsReliable(model, distance)
        THEN ConfScale - (distance * 10) \div (model.maxReliableDistance * 2)
        ELSE ConfScale \div 10]

\* calculateConfidence with the four factors weighted equally
calculateConfidence_EqualWeights(e, model, distance) ==
    LET f == ConfidenceFactors(e, model, distance)
    IN  MathRound(25 * f.filterConfidence + 25 * f.sampleConfidence
                    + 25 * f.varianceConfidence + 25 * f.distanceConfidence,
                  ConfScale)

\* Math.round(confidence * 100) / 100, in 1/100
calculateConfidence(e, model, distance) ==
    LET f == ConfidenceFactors(e, model, distance)
    IN  MathRound(25 * f.filterConfidence + 25 * f.sampleConfidence
                    + 30 * f.varianceConfidence + 20 * f.distanceConfidence,
                  ConfScale)

\* FilterStep with the branches of the conditional swapped
FilterStep_Swapped(kf, rssi, useFilter) ==
    IF useFilter
    THEN [kalmanFilter |-> kf, filteredRssi |-> rssi]
    ELSE LET updated == KalmanFilter_update(kf, rssi)
         IN  [kalmanFilter |-> updated, filteredRssi |-> updated.estimate]

\* FilterStep ignoring useFilter
FilterStep_Always(kf, rssi, useFilter) ==
    LET updated == KalmanFilter_update(kf, rssi)
    IN  [kalmanFilter |-> updated, filteredRssi |-> updated.estimate]

\* const filteredRssi = useFilter ? this.kalmanFilter.update(rssi) : rssi
FilterStep(kf, rssi, useFilter) ==
    IF useFilter
    THEN LET updated == KalmanFilter_update(kf, rssi)
         IN  [kalmanFilter |-> updated, filteredRssi |-> updated.estimate]
    ELSE [kalmanFilter |-> kf, filteredRssi |-> rssi]

\* estimateDistance(rssi, useFilter) at time timestamp: the estimator afterwards,
\* the returned object, and the locals filteredRssi and distance before rounding
estimateDistance(e, table, rssi, useFilter, timestamp) ==
    LET model == ModelOf(e, table)
    IN  IF OutOfRange(model, rssi)
        THEN [est |-> e,
              result |-> [distance |-> Null,
                          confidence |-> 0,
                          filteredRssi |-> rssi,
                          rawRssi |-> rssi,
                          error |-> "RSSI out of valid range"],
              accepted |-> FALSE]
        ELSE LET step == FilterStep(e.kalmanFilter, rssi, useFilter)
                 filteredRssi == step.filteredRssi
                 after == [e EXCEPT !.rawHistory = PushHistory(e, rssi, timestamp),
                                    !.kalmanFilter = step.kalmanFilter]
                 distance == PathLossDistance(model, filteredRssi)
             IN  [est |-> after,
                  result |-> [distance |-> Num(MathRound(distance, DistScale \div 100)),
                              confidence |-> calculateConfidence(after, model, distance),
                              filteredRssi |-> Round1(filteredRssi),
                              rawRssi |-> rssi,
                              model |-> model.name,
                              reliable |-> IsReliable(model, distance)],
                  accepted |-> TRUE,
                  filteredRssi |-> filteredRssi,
                  distance |-> distance]

\* {...model, ...updates}
MergeModel(model, updates) ==
    [f \in DOMAIN model \cup DOMAIN updates |->
        IF f \in DOMAIN updates THEN updates[f] ELSE model[f]]

\* updateModel(updates): this.model becomes a new object
updateModel(e, table, updates) ==
    [e EXCEPT !.model = OwnedRef(MergeModel(ModelOf(e, table), updates))]

\* this.model.referenceRssi = value: a write to the object this.model refers to
WriteReferenceRssi(e, table, value) ==
    IF e.model.ref = "own"
    THEN [est |-> [e EXCEPT !.model.obj.referenceRssi = value], table |-> table]
    ELSE [est |-> e, table |-> [table EXCEPT ![e.model.ref].referenceRssi = value]]

LogBits == 17

Sqrt10 == 316227766

InvSqrt10 == 31622777

RECURSIVE Log10Digits(_, _, _)
\* the binary digits 2 .. LogBits of log10(y), 1 <= y < sqrt(10) in 1/PowScale,
\* as a multiple of 2^-LogBits
Log10Digits(y, k, acc) ==
    IF k > LogBits THEN acc
    ELSE LET sq == PowMul(y, y)
         IN  IF sq >= Sqrt10
             THEN Log10Digits(PowMul(sq, InvSqrt10), k + 1, 2 * acc + 1)
             ELSE Log10Digits(sq, k + 1, 2 * acc)

RECURSIVE Log10Characteristic(_)
\* the largest j with 10^j <= x, x >= 1
Log10Characteristic(x) == IF x < 10 THEN 0 ELSE 1 + Log10Characteristic(x \div 10)

RECURSIVE Pow2Int(_)
Pow2Int(k) == IF k <= 0 THEN 1 ELSE 2 * Pow2Int(k - 1)

\* Math.log10(knownDistance) in 1/DistScale, knownDistance >= 1 in 1/100 m
MathLog10(knownDistance) ==
    LET j == Log10Characteristic(knownDistance)
        y == knownDistance * (PowScale \div Pow10Int(j))
        first == y >= Sqrt10
        digits == Log10Digits(IF first THEN PowMul(y, InvSqrt10) ELSE y, 2,
                              IF first THEN 1 ELSE 0)
    IN  (j - 2) * DistScale + (digits * DistScale) \div Pow2Int(LogBits)

\* Math.abs(knownDistance - 1.0) < 0.1, knownDistance in 1/100 m.  In doubles
\* Math.abs(0.9 - 1.0) is 0.09999999999999998 and Math.abs(1.1 - 1.0) is
\* 0.10000000000000009: 0.9 passes the test and 1.1 does not
NearOneMeter(knownDistance) == 90 <= knownDistance /\ knownDistance < 110

\* CalibratedReferenceRssi with Math.floor in place of Math.round
CalibratedReferenceRssi_Floor(model, knownDistance, rssiSamples) ==
    LET n == Len(rssiSamples)
        sum == SumSeq(rssiSamples)
    IN  IF Abs(knownDistance - 100) < 10
        THEN (sum \div (n * RssiScale)) * RssiScale
        ELSE ((sum * (DistScale \div RssiScale)
                 + model.pathLossExponent * MathLog10(knownDistance) * n)
              \div (n * DistScale)) * RssiScale

\* the reference RSSI calibrate stores, in 1/RssiScale dBm (a whole number of dBm)
CalibratedReferenceRssi(model, knownDistance, rssiSamples) ==
    LET n == Len(rssiSamples)
        sum == SumSeq(rssiSamples)
    IN  IF NearOneMeter(knownDistance)
        THEN MathRound(sum, n * RssiScale) * RssiScale
        ELSE MathRound(sum * (DistScale \div RssiScale)
                         + model.pathLossExponent * MathLog10(knownDistance) * n,
                       n * DistScale) * RssiScale

MinCalibrationSamples == 5

\* TooFewSamples off by one
TooFewSamples_OffByOne(rssiSamples) == Len(rssiSamples) < MinCalibrationSamples - 1

\* rssiSamples.length < 5
TooFewSamples(rssiSamples) == Len(rssiSamples) < MinCalibrationSamples

\* calibrate(knownDistance, rssiSamples): the estimator and the table afterwards,
\* and the returned boolean
calibrate(e, table, knownDistance, rssiSamples) ==
    IF TooFewSamples(rssiSamples)
    THEN [est |-> e, table |-> table, result |-> FALSE]
    ELSE LET meanRssi == MathRound(SumSeq(rssiSamples), Len(rssiSamples))
             w == WriteReferenceRssi(e, table,
                     CalibratedReferenceRssi(ModelOf(e, table), knownDistance, rssiSamples))
         IN  [est |-> [w.est EXCEPT
                          !.kalmanFilter = KalmanFilter_reset(@, meanRssi)],
              table |-> w.table,
              result |-> TRUE]

getStats(e) ==
    IF Len(e.rawHistory) = 0 THEN [samples |-> 0]
    ELSE LET values == HistoryValues(e)
             min == MinSeq(values)
             max == MaxSeq(values)
         IN  [samples |-> Len(values),
              mean |-> MathRound(SumSeq(values), Len(values) * (RssiScale \div 10))
                          * (RssiScale \div 10),
              min |-> min,
              max |-> max,
              range |-> max - min,
              stdDev |-> Round1(MathSqrt(Variance(values))),
              filteredRssi |-> Round1(e.kalmanFilter.estimate),
              filterConfidence |-> KalmanFilter_getConfidence(e.kalmanFilter)]

\* reset() calling kalmanFilter.reset() without its argument
reset_DefaultEstimate(e, table) ==
    [e EXCEPT !.rawHistory = << >>,
              !.kalmanFilter = KalmanFilter_reset(@, DefaultInitialEstimate)]

\* reset(): the default argument of KalmanFilter.reset is not used here
reset(e, table) ==
    [e EXCEPT !.rawHistory = << >>,
              !.kalmanFilter = KalmanFilter_reset(@, ModelOf(e, table).referenceRssi)]

-----------------------------------------------------------------------------
(* MultiRadioEstimator.  this.estimators is the sequence of its entries in  *)
(* insertion order, each [radioType, id]: id names the DistanceEstimator    *)
(* object the entry refers to in the heap of estimator objects.             *)

\* this.fusionWeights[radioType] || 0.5, in 1/10
FusionWeight(radioType) ==
    CASE radioType = "BLE" -> 10
      [] radioType = "WIFI_2G" -> 8
      [] radioType = "WIFI_5G" -> 7
      [] radioType = "LORA" -> 5
      [] OTHER -> 5

HasEstimator(entries, radioType) ==
    \E k \in 1 .. Len(entries) : entries[k].radioType = radioType

EstimatorId(entries, radioType) ==
    LET k == CHOOSE j \in 1 .. Len(entries) : entries[j].radioType = radioType
    IN  entries[k].id

\* getEstimator(radioType): the entries and the heap afterwards
getEstimator(entries, heap, table, radioType) ==
    IF HasEstimator(entries, radioType)
    THEN [entries |-> entries, heap |-> heap]
    ELSE [entries |-> Append(entries, [radioType |-> radioType, id |-> Len(heap) + 1]),
          heap |-> Append(heap, DistanceEstimator_new(radioType, Null, table))]

\* addReading(radioType, rssi)
addReading(entries, heap, table, radioType, rssi, timestamp) ==
    LET g == getEstimator(entries, heap, table, radioType)
        id == EstimatorId(g.entries, radioType)
        r == estimateDistance(g.heap[id], table, rssi, TRUE, timestamp)
    IN  [entries |-> g.entries,
         heap |-> [g.heap EXCEPT ![id] = r.est],
         id |-> id,
         call |-> r]

\* one pass of the first loop of getFusedEstimate over an estimator that has
\* readings: r is what estimator.estimateDistance(stats.filteredRssi, false)
\* did; c holds the heap, the estimates, the clock and the ids of the
\* estimators that recorded a reading
CollectOne(c, entry, r) ==
    [heap |-> [c.heap EXCEPT ![entry.id] = r.est],
     estimates |-> IF r.result.distance # Null
                   THEN Append(c.estimates,
                          [radioType |-> entry.radioType,
                           distance |-> ValueOf(r.result.distance),
                           confidence |-> r.result.confidence,
                           weight |-> FusionWeight(entry.radioType)])
                   ELSE c.estimates,
     timestamp |-> IF r.accepted THEN c.timestamp + 1 ELSE c.timestamp,
     recorded |-> IF r.accepted THEN c.recorded \cup {entry.id} ELSE c.recorded]

\* CollectFrom asking for more than one sample
CollectFrom_SkipsSingle(c, entry, table, stats) ==
    IF stats.samples > 1
    THEN CollectOne(c, entry,
            estimateDistance(c.heap[entry.id], table, stats.filteredRssi, FALSE,
                             c.timestamp))
    ELSE c

\* const stats = estimator.getStats(); if (stats.samples > 0) { ... }
CollectFrom(c, entry, table, stats) ==
    IF stats.samples > 0
    THEN CollectOne(c, entry,
            estimateDistance(c.heap[entry.id], table, stats.filteredRssi, FALSE,
                             c.timestamp))
    ELSE c

RECURSIVE CollectEstimates(_, _, _, _)
\* the first loop of getFusedEstimate from entry k on
CollectEstimates(entries, table, k, c) ==
    IF k > Len(entries) THEN c
    ELSE CollectEstimates(entries, table, k + 1,
            CollectFrom(c, entries[k], table, getStats(c.heap[entries[k].id])))

RECURSIVE FuseTotals_SumConfidence(_, _)
\* FuseTotals adding the confidences up where the code takes their maximum
FuseTotals_SumConfidence(estimates, divisor) ==
    IF estimates = << >>
    THEN [totalWeight |-> 0, whole |-> 0, part |-> 0, maxConfidence |-> 0]
    ELSE LET first == Head(estimates)
             effectiveWeight == first.weight * first.confidence
             rest == FuseTotals_SumConfidence(Tail(estimates), divisor)
         IN  [totalWeight |-> rest.totalWeight + effectiveWeight,
              whole |-> rest.whole + (first.distance \div divisor) * effectiveWeight,
              part |-> rest.part + (first.distance % divisor) * effectiveWeight,
              maxConfidence |-> rest.maxConfidence + first.confidence]

RECURSIVE FuseTotals(_, _)
\* the second loop: totalWeight (1/1000), maxConfidence, and weightedDistance as
\* whole * divisor + part
FuseTotals(estimates, divisor) ==
    IF estimates = << >>
    THEN [totalWeight |-> 0, whole |-> 0, part |-> 0, maxConfidence |-> 0]
    ELSE LET first == Head(estimates)
             effectiveWeight == first.weight * first.confidence
             rest == FuseTotals(Tail(estimates), divisor)
         IN  [totalWeight |-> rest.totalWeight + effectiveWeight,
              whole |-> rest.whole + (first.distance \div divisor) * effectiveWeight,
              part |-> rest.part + (first.distance % divisor) * effectiveWeight,
              maxConfidence |-> Max(rest.maxConfidence, first.confidence)]

\* FusedResult with the confidence clamped to 1
FusedResult_Clamped(estimates) ==
    IF Len(estimates) = 0
    THEN [distance |-> Null,
          confidence |-> 0,
          sources |-> 0,
          error |-> "No valid estimates available"]
    ELSE LET totalWeight == FuseTotals(estimates, 1).totalWeight
             t == FuseTotals(estimates, Max(totalWeight, 1))
             fused == t.whole + MathRound(t.part, Max(totalWeight, 1))
             truthy == totalWeight > 0 /\ (t.whole # 0 \/ t.part # 0)
         IN  [distance |-> IF truthy THEN Num(fused) ELSE Null,
              confidence |-> Min(MathRound(t.maxConfidence * Len(estimates), 3), 100),
              sources |-> Len(estimates),
              breakdown |-> estimates]

\* the object getFusedEstimate returns for the collected estimates
FusedResult(estimates) ==
    IF Len(estimates) = 0
    THEN [distance |-> Null,
          confidence |-> 0,
          sources |-> 0,
          error |-> "No valid estimates available"]
    ELSE LET totalWeight == FuseTotals(estimates, 1).totalWeight
             t == FuseTotals(estimates, Max(totalWeight, 1))
             \* Math.round(fusedDistance * 100), fusedDistance = weightedDistance / totalWeight
             fused == t.whole + MathRound(t.part, Max(totalWeight, 1))
             \* fusedDistance ? ... : null
             truthy == totalWeight > 0 /\ (t.whole # 0 \/ t.part # 0)
         IN  [distance |-> IF truthy THEN Num(fused) ELSE Null,
              confidence |-> MathRound(t.maxConfidence * Len(estimates), 3),
              sources |-> Len(estimates),
              breakdown |-> estimates]

\* the second loop and the return of getFusedEstimate, after the first loop
\* has left c
FuseCollected(c) ==
    [heap |-> c.heap,
     timestamp |-> c.timestamp,
     recorded |-> c.recorded,
     result |-> FusedResult(c.estimates)]

\* getFusedEstimate(): the heap and the clock afterwards, the estimators that
\* recorded a reading, the returned object
getFusedEstimate(entries, heap, table, timestamp) ==
    FuseCollected(CollectEstimates(entries, table, 1,
                     [heap |-> heap, estimates |-> << >>, timestamp |-> timestamp,
                      recorded |-> {}]))

\* MultiRadioEstimator.reset() resetting the filters and keeping the histories
MultiRadioEstimator_reset_KeepsHistory(entries, heap, table) ==
    [id \in 1 .. Len(heap) |->
        IF \E k \in 1 .. Len(entries) : entries[k].id = id
        THEN [heap[id] EXCEPT !.kalmanFilter =
                 KalmanFilter_reset(@, ModelOf(heap[id], table).referenceRssi)]
        ELSE heap[id]]

\* MultiRadioEstimator.reset(): the heap afterwards
MultiRadioEstimator_reset(entries, heap, table) ==
    [id \in 1 .. Len(heap) |->
        IF \E k \in 1 .. Len(entries) : entries[k].id = id
        THEN reset(heap[id], table)
        ELSE heap[id]]

-----------------------------------------------------------------------------
(* The platform adapters.  A method is an operator from the adapter's fields  *)
(* a and the state p of what it wraps (the one API for the BLE adapters, the  *)
(* whole platform for the Geo adapters) to both afterwards; called says       *)
(* whether the method got past its early return.                              *)

\* the four adapters after their constructors
NewAdapters ==
    [CordovaBLE |-> [scanning |-> FALSE, ble |-> FALSE],
     WebBLE |-> [scanning |-> FALSE, scanAbortController |-> Null],
     CordovaGeo |-> [watching |-> FALSE, watchId |-> Null, bgGeo |-> FALSE],
     WebGeo |-> [watching |-> FALSE, watchId |-> Null]]

\* window.ble, navigator.bluetooth, window.BackgroundGeolocation and
\* navigator.geolocation before any call
NewPlatform ==
    [ble |-> [scanCallbacks |-> 0, pendingStops |-> 0, calls |-> 0],
     bluetooth |-> [controllers |-> 0, pending |-> {}, scans |-> {}, aborted |-> {},
                    listeners |-> 0, choosers |-> 0, calls |-> 0],
     bgGeo |-> [listeners |-> 0, started |-> FALSE, calls |-> 0],
     geolocation |-> [watches |-> {}, lastWatchId |-> 0, calls |-> 0]]

\* CordovaBLE.initialize() with the plugin present
CordovaBLE_initialize(a) == [a EXCEPT !.ble = TRUE]

\* CordovaBLE.startScan(): this.ble.startScanWithOptions(...); this.scanning = true
CordovaBLE_startScan(a, p) ==
    IF a.scanning THEN [a |-> a, p |-> p, called |-> FALSE]
    ELSE [a |-> [a EXCEPT !.scanning = TRUE],
          p |-> [p EXCEPT !.scanCallbacks = @ + 1, !.calls = @ + 1],
          called |-> TRUE]

\* CordovaBLE.stopScan() up to the call of this.ble.stopScan(success, failure)
CordovaBLE_stopScan(a, p) ==
    IF ~ a.scanning THEN [a |-> a, p |-> p, called |-> FALSE]
    ELSE [a |-> a,
          p |-> [p EXCEPT !.pendingStops = @ + 1, !.calls = @ + 1],
          called |-> TRUE]

\* the first callback given to this.ble.stopScan
CordovaBLE_stopScan_success(a) == [a EXCEPT !.scanning = FALSE]

\* the second callback given to this.ble.stopScan: () => resolve()
CordovaBLE_stopScan_failure(a) == a

\* WebBLE.startLEScan() up to await navigator.bluetooth.requestLEScan(scanOptions)
WebBLE_startLEScan(a, p) ==
    LET controller == p.controllers + 1
    IN  [a |-> [a EXCEPT !.scanAbortController = Num(controller)],
         p |-> [p EXCEPT !.controllers = controller,
                         !.pending = @ \cup {controller},
                         !.calls = @ + 1],
         called |-> TRUE]

\* WebBLE.startLegacyScan() up to await navigator.bluetooth.requestDevice(...)
WebBLE_startLegacyScan(a, p) ==
    [a |-> a,
     p |-> [p EXCEPT !.choosers = @ + 1, !.calls = @ + 1],
     called |-> TRUE]

\* WebBLE.startScan(); requestLEScan says whether the browser has that function
WebBLE_startScan(a, p, requestLEScan) ==
    IF a.scanning THEN [a |-> a, p |-> p, called |-> FALSE]
    ELSE IF requestLEScan THEN WebBLE_startLEScan(a, p)
    ELSE WebBLE_startLegacyScan(a, p)

\* WebBLE.startLEScan() after the await: addEventListener, this.scanning = true
WebBLE_startLEScan_resumed(a, p) ==
    [a |-> [a EXCEPT !.scanning = TRUE],
     p |-> [p EXCEPT !.listeners = @ + 1, !.calls = @ + 1]]

\* WebBLE.stopScan() without its early return
WebBLE_stopScan_Unguarded(a, p) ==
    [a |-> [a EXCEPT !.scanAbortController = Null, !.scanning = FALSE],
     p |-> IF a.scanAbortController # Null
           THEN [p EXCEPT !.aborted = @ \cup {ValueOf(a.scanAbortController)},
                          !.scans = @ \ {ValueOf(a.scanAbortController)},
                          !.calls = @ + 1]
           ELSE p,
     called |-> TRUE]

\* WebBLE.stopScan(): abort() ends the scan the signal was given to
WebBLE_stopScan(a, p) ==
    IF ~ a.scanning THEN [a |-> a, p |-> p, called |-> FALSE]
    ELSE [a |-> [a EXCEPT !.scanAbortController = Null, !.scanning = FALSE],
          p |-> IF a.scanAbortController # Null
                THEN [p EXCEPT !.aborted = @ \cup {ValueOf(a.scanAbortController)},
                               !.scans = @ \ {ValueOf(a.scanAbortController)},
                               !.calls = @ + 1]
                ELSE p,
          called |-> TRUE]

\* CordovaGeo.initialize(): this.bgGeo is set if the plugin is present
CordovaGeo_initialize(a, plugin) == [a EXCEPT !.bgGeo = plugin]

\* CordovaGeo.startBackgroundWatch(): configure, on("location"), on("error"), start
CordovaGeo_startBackgroundWatch(a, p) ==
    [a |-> [a EXCEPT !.watching = TRUE],
     p |-> [p EXCEPT !.bgGeo.listeners = @ + 2,
                     !.bgGeo.started = TRUE,
                     !.bgGeo.calls = @ + 4],
     called |-> TRUE]

\* this.watchId = navigator.geolocation.watchPosition(...); this.watching = true
StartStandardWatch(a, p) ==
    LET watchId == p.geolocation.lastWatchId + 1
    IN  [a |-> [a EXCEPT !.watching = TRUE, !.watchId = Num(watchId)],
         p |-> [p EXCEPT !.geolocation.lastWatchId = watchId,
                         !.geolocation.watches = @ \cup {watchId},
                         !.geolocation.calls = @ + 1],
         called |-> TRUE]

\* CordovaGeo.startWatching()
CordovaGeo_startWatching(a, p) ==
    IF a.watching THEN [a |-> a, p |-> p, called |-> FALSE]
    ELSE IF a.bgGeo THEN CordovaGeo_startBackgroundWatch(a, p)
    ELSE StartStandardWatch(a, p)

\* if (this.watchId !== null) { clearWatch(this.watchId); this.watchId = null }
ClearStandardWatch(a, p) ==
    IF a.watchId # Null
    THEN [a |-> [a EXCEPT !.watchId = Null],
          p |-> [p EXCEPT !.geolocation.watches = @ \ {ValueOf(a.watchId)},
                          !.geolocation.calls = @ + 1]]
    ELSE [a |-> a, p |-> p]

\* CordovaGeo.stopWatching()
CordovaGeo_stopWatching(a, p) ==
    IF ~ a.watching THEN [a |-> a, p |-> p, called |-> FALSE]
    ELSE IF a.bgGeo
         THEN [a |-> [a EXCEPT !.watching = FALSE],
               p |-> [p EXCEPT !.bgGeo.started = FALSE, !.bgGeo.calls = @ + 1],
               called |-> TRUE]
    ELSE LET cleared == ClearStandardWatch(a, p)
         IN  [a |-> [cleared.a EXCEPT !.watching = FALSE],
              p |-> cleared.p,
              called |-> TRUE]

\* WebGeo.startWatching()
WebGeo_startWatching(a, p) ==
    IF a.watching THEN [a |-> a, p |-> p, called |-> FALSE]
    ELSE StartStandardWatch(a, p)

\* WebGeo.stopWatching()
WebGeo_stopWatching(a, p) ==
    IF ~ a.watching THEN [a |-> a, p |-> p, called |-> FALSE]
    ELSE LET cleared == ClearStandardWatch(a, p)
         IN  [a |-> [cleared.a EXCEPT !.watching = FALSE],
              p |-> cleared.p,
              called |-> TRUE]

-----------------------------------------------------------------------------
(* IndexedDBStorage.  A JavaScript value is a record of its type and its      *)
(* literal; an object (this._data, an object store) is a function from its    *)
(* own keys.                                                                  *)

JsNull == [type |-> "null", literal |-> "null"]

JsUndefined == [type |-> "undefined", literal |-> "undefined"]

\* the values JavaScript takes as false in x || y
Falsy ==
    { JsNull, JsUndefined,
      [type |-> "number", literal |-> "0"],
      [type |-> "boolean", literal |-> "false"],
      [type |-> "string", literal |-> ""] }

\* x || null
OrNull(x) == IF x \in Falsy THEN JsNull ELSE x

\* property names every object inherits from Object.prototype
InheritedKeys == {"constructor", "toString"}

\* object[key]
PropertyOf(object, key) ==
    IF key \in DOMAIN object THEN object[key]
    ELSE IF key \in InheritedKeys THEN [type |-> "function", literal |-> key]
    ELSE JsUndefined

\* object[key] = value
WithProperty(object, key, value) ==
    [k \in DOMAIN object \cup {key} |-> IF k = key THEN value ELSE object[k]]

\* delete object[key]
WithoutProperty(object, key) ==
    [k \in DOMAIN object \ {key} |-> object[k]]

\* "_blob_" + id
BlobKey(id) == "_blob_" \o id

\* k.startsWith("_blob_")
IsBlobKey(k) == Len(k) >= 6 /\ SubSeq(k, 1, 6) = "_blob_"

\* new IndexedDBStorage(), with the object stores of the database not yet opened
IndexedDBStorage_new ==
    [db |-> "null", _data |-> << >>, keyvalue |-> << >>, blobs |-> << >>]

\* initialize(): in memory when there is no indexedDB, else the opened database
IndexedDBStorage_initialize(s, hasIndexedDB) ==
    [s EXCEPT !.db = IF hasIndexedDB THEN "IDBDatabase" ELSE "inMemory"]

\* get(key): the value the promise resolves with
IndexedDBStorage_get(s, key) ==
    IF s.db = "inMemory" THEN OrNull(PropertyOf(s._data, key))
    ELSE IF key \in DOMAIN s.keyvalue THEN s.keyvalue[key]
    ELSE JsNull

\* set(key, value)
IndexedDBStorage_set(s, key, value) ==
    IF s.db = "inMemory" THEN [s EXCEPT !._data = WithProperty(@, key, value)]
    ELSE [s EXCEPT !.keyvalue = WithProperty(@, key, value)]

\* delete(key)
IndexedDBStorage_delete(s, key) ==
    IF s.db = "inMemory" THEN [s EXCEPT !._data = WithoutProperty(@, key)]
    ELSE [s EXCEPT !.keyvalue = WithoutProperty(@, key)]

\* keys(), as a set
IndexedDBStorage_keys(s) ==
    IF s.db = "inMemory" THEN { k \in DOMAIN s._data : ~ IsBlobKey(k) }
    ELSE DOMAIN s.keyvalue

\* clear(): in memory every blob key is kept, with the value undefined
IndexedDBStorage_clear(s) ==
    IF s.db = "inMemory"
    THEN [s EXCEPT !._data = [k \in { b \in DOMAIN s._data : IsBlobKey(b) } |-> JsUndefined]]
    ELSE [s EXCEPT !.keyvalue = << >>]

\* { id, blob, metadata, timestamp }
BlobRecord(id, blob) == [type |-> "object", literal |-> blob, id |-> id]

\* saveBlob(id, blob)
IndexedDBStorage_saveBlob(s, id, blob) ==
    IF s.db = "inMemory"
    THEN [s EXCEPT !._data = WithProperty(@, BlobKey(id), BlobRecord(id, blob))]
    ELSE [s EXCEPT !.blobs = WithProperty(@, id, BlobRecord(id, blob))]

\* getBlob(id): the value the promise resolves with
IndexedDBStorage_getBlob(s, id) ==
    IF s.db = "inMemory" THEN OrNull(PropertyOf(s._data, BlobKey(id)))
    ELSE IF id \in DOMAIN s.blobs THEN OrNull(s.blobs[id])
    ELSE JsNull

-----------------------------------------------------------------------------
(* State *)

VARIABLES
    SignalModels,   \* the built-in table (module-level object)
    est,            \* the heap of DistanceEstimator objects, by id
    multi,          \* the entries of one MultiRadioEstimator's this.estimators
    now,            \* Date.now(): a clock that ticks with every recorded reading
    ret,            \* the last call: its name, arguments and returned value
    readings,       \* per estimator: the readings it accepted, in all and since
                    \* its history was last emptied (construction or reset)
    nops,           \* the number of calls counted against MaxOps
    kf,             \* a KalmanFilter constructed on its own, Null before that
    adapters,       \* the fields of one CordovaBLE, WebBLE, CordovaGeo and WebGeo
    platform,       \* what the plugins and the browser hold: callbacks, listeners,
                    \* scans and watches, and the calls made into each API
    storage,        \* the fields of one IndexedDBStorage, and the object stores of
                    \* the database it opened
    written,        \* per key and per blob id: what was last stored under it and
                    \* not deleted or cleared since
    worker          \* the service worker: the tile cache's keys in insertion
                    \* order, and the handleTileRequest calls in flight

vars == << SignalModels, est, multi, now, ret, readings, nops, kf, adapters, platform,
          storage, written, worker >>

\* the estimators and what they share
estimatorVars == << SignalModels, est, multi, now, readings >>

\* everything but the estimators, ret and nops
outsideEstimators == << kf, adapters, platform, storage, written, worker >>

\* everything but the KalmanFilter constructed on its own, ret and nops
outsideFilter == << estimatorVars, adapters, platform, storage, written, worker >>

\* everything but the platform adapters, ret and nops
outsideAdapters == << estimatorVars, kf, storage, written, worker >>

\* everything but the storage adapter, ret and nops
outsideStorage == << estimatorVars, kf, adapters, platform, worker >>

\* everything but the service worker, ret and nops
outsideWorker == << estimatorVars, kf, adapters, platform, storage, written >>

Init ==
    /\ SignalModels = InitialSignalModels
    /\ est = << >>
    /\ multi = << >>
    /\ now = 0
    /\ ret = [op |-> "none"]
    /\ readings = << >>
    /\ nops = 0
    /\ kf = Null
    /\ adapters = NewAdapters
    /\ platform = NewPlatform
    /\ storage = IndexedDBStorage_new
    /\ written = [values |-> << >>, blobs |-> << >>]
    /\ worker = [cache |-> << >>, handlers |-> << >>]

NoReadings == [total |-> 0, sinceClear |-> 0]

OneMore(count) == [total |-> count.total + 1, sinceClear |-> count.sinceClear + 1]

\* what a call of estimateDistance leaves in ret
CallRecord(op, id, rssi, useFilter, r) ==
    [op |-> op, id |-> id, rssi |-> rssi, useFilter |-> useFilter,
     result |-> r.result,
     accepted |-> r.accepted,
     locals |-> IF r.accepted
                THEN [filteredRssi |-> r.filteredRssi, distance |-> r.distance]
                ELSE << >>]

\* new DistanceEstimator(radioType)
Construct(radioType) ==
    /\ est' = Append(est, DistanceEstimator_new(radioType, Null, SignalModels))
    /\ readings' = Append(readings, NoReadings)
    /\ ret' = [op |-> "new", id |-> Len(est) + 1, radioType |-> radioType]
    /\ UNCHANGED << SignalModels, multi, now >>
    /\ UNCHANGED outsideEstimators

\* new DistanceEstimator(radioType, customModel)
ConstructCustom(radioType, customModel) ==
    /\ est' = Append(est, DistanceEstimator_new(radioType, Num(customModel), SignalModels))
    /\ readings' = Append(readings, NoReadings)
    /\ ret' = [op |-> "new", id |-> Len(est) + 1, radioType |-> radioType]
    /\ UNCHANGED << SignalModels, multi, now >>
    /\ UNCHANGED outsideEstimators

\* est[i].estimateDistance(rssi, useFilter)
EstimateDistance(i, rssi, useFilter) ==
    /\ i \in DOMAIN est
    /\ \E r \in {estimateDistance(est[i], SignalModels, rssi, useFilter, now)} :
           /\ est' = [est EXCEPT ![i] = r.est]
           /\ now' = IF r.accepted THEN now + 1 ELSE now
           /\ readings' = IF r.accepted THEN [readings EXCEPT ![i] = OneMore(@)]
                          ELSE readings
           /\ ret' = CallRecord("estimateDistance", i, rssi, useFilter, r)
    /\ UNCHANGED << SignalModels, multi >>
    /\ UNCHANGED outsideEstimators

\* est[i].estimateDistance(rssi, useFilter) and est[j].estimateDistance(rssi,
\* useFilter), one right after the other within the same millisecond
EstimateBoth(i, j, rssi, useFilter) ==
    /\ i \in DOMAIN est /\ j \in DOMAIN est /\ i # j
    /\ \E a \in {estimateDistance(est[i], SignalModels, rssi, useFilter, now)} :
         \E b \in {estimateDistance(est[j], SignalModels, rssi, useFilter, now)} :
           /\ est' = [est EXCEPT ![i] = a.est, ![j] = b.est]
           /\ now' = IF a.accepted \/ b.accepted THEN now + 1 ELSE now
           /\ readings' = [id \in DOMAIN readings |->
                             IF (id = i /\ a.accepted) \/ (id = j /\ b.accepted)
                             THEN OneMore(readings[id])
                             ELSE readings[id]]
           /\ ret' = [op |-> "estimateBoth", id |-> i, other |-> j, rssi |-> rssi,
                      useFilter |-> useFilter,
                      result |-> a.result, otherResult |-> b.result]
    /\ UNCHANGED << SignalModels, multi >>
    /\ UNCHANGED outsideEstimators

\* est[i].calibrate(knownDistance, rssiSamples)
Calibrate(i, knownDistance, rssiSamples) ==
    /\ i \in DOMAIN est
    /\ \E r \in {calibrate(est[i], SignalModels, knownDistance, rssiSamples)} :
           /\ est' = [est EXCEPT ![i] = r.est]
           /\ SignalModels' = r.table
           /\ ret' = [op |-> "calibrate", id |-> i, knownDistance |-> knownDistance,
                      rssiSamples |-> rssiSamples, result |-> r.result]
    /\ UNCHANGED << multi, now, readings >>
    /\ UNCHANGED outsideEstimators

\* est[i].updateModel(updates)
UpdateModel(i, updates) ==
    /\ i \in DOMAIN est
    /\ est' = [est EXCEPT ![i] = updateModel(@, SignalModels, updates)]
    /\ ret' = [op |-> "updateModel", id |-> i, updates |-> updates]
    /\ UNCHANGED << SignalModels, multi, now, readings >>
    /\ UNCHANGED outsideEstimators

\* est[i].reset()
Reset(i) ==
    /\ i \in DOMAIN est
    /\ est' = [est EXCEPT ![i] = reset(@, SignalModels)]
    /\ readings' = [readings EXCEPT ![i].sinceClear = 0]
    /\ ret' = [op |-> "reset", id |-> i]
    /\ UNCHANGED << SignalModels, multi, now >>
    /\ UNCHANGED outsideEstimators

\* multi.addReading(radioType, rssi)
AddReading(radioType, rssi) ==
    /\ \E a \in {addReading(multi, est, SignalModels, radioType, rssi, now)} :
         \E counts \in {IF Len(a.heap) > Len(est) THEN Append(readings, NoReadings)
                        ELSE readings} :
           /\ multi' = a.entries
           /\ est' = a.heap
           /\ now' = IF a.call.accepted THEN now + 1 ELSE now
           /\ readings' = IF a.call.accepted THEN [counts EXCEPT ![a.id] = OneMore(@)]
                          ELSE counts
           /\ ret' = [CallRecord("addReading", a.id, rssi, TRUE, a.call)
                        EXCEPT !.op = "addReading"] @@ [radioType |-> radioType]
    /\ UNCHANGED << SignalModels >>
    /\ UNCHANGED outsideEstimators

\* multi.getFusedEstimate()
GetFusedEstimate ==
    /\ \E f \in {getFusedEstimate(multi, est, SignalModels, now)} :
           /\ est' = f.heap
           /\ now' = f.timestamp
           /\ readings' = [id \in DOMAIN readings |->
                             IF id \in f.recorded THEN OneMore(readings[id])
                             ELSE readings[id]]
           /\ ret' = [op |-> "getFusedEstimate", result |-> f.result]
    /\ UNCHANGED << SignalModels, multi >>
    /\ UNCHANGED outsideEstimators

\* multi.reset()
MultiReset ==
    /\ est' = MultiRadioEstimator_reset(multi, est, SignalModels)
    /\ readings' = [id \in DOMAIN readings |->
                      IF \E k \in 1 .. Len(multi) : multi[k].id = id
                      THEN [readings[id] EXCEPT !.sinceClear = 0]
                      ELSE readings[id]]
    /\ ret' = [op |-> "multiReset"]
    /\ UNCHANGED << SignalModels, multi, now >>
    /\ UNCHANGED outsideEstimators

-----------------------------------------------------------------------------
(* Calls of the platform adapters, and the callbacks and events the platform  *)
(* answers with                                                               *)

AdapterNames == {"CordovaBLE", "WebBLE", "CordovaGeo", "WebGeo"}

\* what a start or stop call leaves in ret
AdapterCall(op, name, r) ==
    [op |-> op, adapter |-> name, called |-> r.called, resolved |-> TRUE]

\* CordovaBLE.initialize() and CordovaGeo.initialize(), the background
\* geolocation plugin being present or not
Initialize(plugin) ==
    /\ adapters' = [adapters EXCEPT
                      !.CordovaBLE = CordovaBLE_initialize(@),
                      !.CordovaGeo = CordovaGeo_initialize(@, plugin)]
    /\ ret' = [op |-> "initialize"]
    /\ UNCHANGED << platform, outsideAdapters >>

\* adapters.CordovaBLE.startScan(), after initialize()
CordovaBLEStartScan ==
    /\ adapters.CordovaBLE.ble
    /\ \E r \in {CordovaBLE_startScan(adapters.CordovaBLE, platform.ble)} :
         /\ adapters' = [adapters EXCEPT !.CordovaBLE = r.a]
         /\ platform' = [platform EXCEPT !.ble = r.p]
         /\ ret' = AdapterCall("start", "CordovaBLE", r)
    /\ UNCHANGED outsideAdapters

\* adapters.CordovaBLE.stopScan(), after initialize(): past the early return the
\* promise stays pending until the plugin calls back
CordovaBLEStopScan ==
    /\ adapters.CordovaBLE.ble
    /\ \E r \in {CordovaBLE_stopScan(adapters.CordovaBLE, platform.ble)} :
         /\ adapters' = [adapters EXCEPT !.CordovaBLE = r.a]
         /\ platform' = [platform EXCEPT !.ble = r.p]
         /\ ret' = [AdapterCall("stop", "CordovaBLE", r) EXCEPT !.resolved = ~ r.called]
    /\ UNCHANGED outsideAdapters

\* the plugin answers a ble.stopScan call through its success or failure callback
CordovaBLEStopCallback(success) ==
    /\ platform.ble.pendingStops > 0
    /\ adapters' = [adapters EXCEPT
                      !.CordovaBLE = IF success THEN CordovaBLE_stopScan_success(@)
                                     ELSE CordovaBLE_stopScan_failure(@)]
    /\ platform' = [platform EXCEPT
                      !.ble.pendingStops = @ - 1,
                      !.ble.scanCallbacks = IF success THEN 0 ELSE @]
    /\ ret' = [op |-> "stopped", adapter |-> "CordovaBLE", called |-> TRUE,
               resolved |-> TRUE, success |-> success]
    /\ UNCHANGED outsideAdapters

\* adapters.WebBLE.startScan()
WebBLEStartScan(requestLEScan) ==
    /\ \E r \in {WebBLE_startScan(adapters.WebBLE, platform.bluetooth, requestLEScan)} :
         /\ adapters' = [adapters EXCEPT !.WebBLE = r.a]
         /\ platform' = [platform EXCEPT !.bluetooth = r.p]
         /\ ret' = [AdapterCall("start", "WebBLE", r) EXCEPT !.resolved = ~ r.called]
    /\ UNCHANGED outsideAdapters

\* requestLEScan resolves for the scan given controller's signal: startLEScan resumes
LEScanGranted(controller) ==
    /\ controller \in platform.bluetooth.pending
    /\ controller \notin platform.bluetooth.aborted
    /\ \E r \in {WebBLE_startLEScan_resumed(adapters.WebBLE, platform.bluetooth)} :
         /\ adapters' = [adapters EXCEPT !.WebBLE = r.a]
         /\ platform' = [platform EXCEPT
                           !.bluetooth = [r.p EXCEPT !.pending = @ \ {controller},
                                                     !.scans = @ \cup {controller}]]
         /\ ret' = [op |-> "started", adapter |-> "WebBLE", called |-> TRUE,
                    resolved |-> TRUE, success |-> TRUE]
    /\ UNCHANGED outsideAdapters

\* requestLEScan rejects: startLEScan rethrows from its catch block
LEScanRejected(controller) ==
    /\ controller \in platform.bluetooth.pending
    /\ platform' = [platform EXCEPT !.bluetooth.pending = @ \ {controller}]
    /\ ret' = [op |-> "started", adapter |-> "WebBLE", called |-> TRUE,
               resolved |-> TRUE, success |-> FALSE]
    /\ UNCHANGED << adapters, outsideAdapters >>

\* requestDevice resolves with a device (startLegacyScan emits one 'device'
\* event) or rejects
DeviceChooserClosed(chosen) ==
    /\ platform.bluetooth.choosers > 0
    /\ platform' = [platform EXCEPT !.bluetooth.choosers = @ - 1]
    /\ ret' = [op |-> "started", adapter |-> "WebBLE", called |-> TRUE,
               resolved |-> TRUE, success |-> chosen,
               devices |-> IF chosen THEN 1 ELSE 0]
    /\ UNCHANGED << adapters, outsideAdapters >>

\* the browser dispatches one advertisementreceived event while a scan is
\* active: every listener added to navigator.bluetooth emits one 'device' event
Advertisement ==
    /\ platform.bluetooth.scans # {}
    /\ ret' = [op |-> "advertisementreceived", adapter |-> "WebBLE",
               devices |-> platform.bluetooth.listeners]
    /\ UNCHANGED << adapters, platform, outsideAdapters >>

\* adapters.WebBLE.stopScan()
WebBLEStopScan ==
    /\ \E r \in {WebBLE_stopScan(adapters.WebBLE, platform.bluetooth)} :
         /\ adapters' = [adapters EXCEPT !.WebBLE = r.a]
         /\ platform' = [platform EXCEPT !.bluetooth = r.p]
         /\ ret' = AdapterCall("stop", "WebBLE", r)
    /\ UNCHANGED outsideAdapters

\* adapters.CordovaGeo.startWatching()
CordovaGeoStartWatching ==
    /\ \E r \in {CordovaGeo_startWatching(adapters.CordovaGeo, platform)} :
         /\ adapters' = [adapters EXCEPT !.CordovaGeo = r.a]
         /\ platform' = r.p
         /\ ret' = AdapterCall("start", "CordovaGeo", r)
    /\ UNCHANGED outsideAdapters

\* adapters.CordovaGeo.stopWatching()
CordovaGeoStopWatching ==
    /\ \E r \in {CordovaGeo_stopWatching(adapters.CordovaGeo, platform)} :
         /\ adapters' = [adapters EXCEPT !.CordovaGeo = r.a]
         /\ platform' = r.p
         /\ ret' = AdapterCall("stop", "CordovaGeo", r)
    /\ UNCHANGED outsideAdapters

\* adapters.WebGeo.startWatching()
WebGeoStartWatching ==
    /\ \E r \in {WebGeo_startWatching(adapters.WebGeo, platform)} :
         /\ adapters' = [adapters EXCEPT !.WebGeo = r.a]
         /\ platform' = r.p
         /\ ret' = AdapterCall("start", "WebGeo", r)
    /\ UNCHANGED outsideAdapters

\* adapters.WebGeo.stopWatching()
WebGeoStopWatching ==
    /\ \E r \in {WebGeo_stopWatching(adapters.WebGeo, platform)} :
         /\ adapters' = [adapters EXCEPT !.WebGeo = r.a]
         /\ platform' = r.p
         /\ ret' = AdapterCall("stop", "WebGeo", r)
    /\ UNCHANGED outsideAdapters

-----------------------------------------------------------------------------
(* Calls of the storage adapter; each promise resolves before the next call   *)

\* storage.initialize()
StorageInitialize(hasIndexedDB) ==
    /\ storage.db = "null"
    /\ storage' = IndexedDBStorage_initialize(storage, hasIndexedDB)
    /\ ret' = [op |-> "storage.initialize"]
    /\ UNCHANGED << written, outsideStorage >>

\* storage.get(key)
StorageGet(key) ==
    /\ storage.db # "null"
    /\ ret' = [op |-> "get", key |-> key, result |-> IndexedDBStorage_get(storage, key)]
    /\ UNCHANGED << storage, written, outsideStorage >>

\* storage.set(key, value)
StorageSet(key, value) ==
    /\ storage.db # "null"
    /\ storage' = IndexedDBStorage_set(storage, key, value)
    /\ written' = [written EXCEPT !.values = WithProperty(@, key, value)]
    /\ ret' = [op |-> "set", key |-> key, value |-> value]
    /\ UNCHANGED outsideStorage

\* storage.delete(key)
StorageDelete(key) ==
    /\ storage.db # "null"
    /\ storage' = IndexedDBStorage_delete(storage, key)
    /\ written' = [written EXCEPT !.values = WithoutProperty(@, key)]
    /\ ret' = [op |-> "delete", key |-> key]
    /\ UNCHANGED outsideStorage

\* storage.keys()
StorageKeys ==
    /\ storage.db # "null"
    /\ ret' = [op |-> "keys", result |-> IndexedDBStorage_keys(storage)]
    /\ UNCHANGED << storage, written, outsideStorage >>

\* storage.clear()
StorageClear ==
    /\ storage.db # "null"
    /\ storage' = IndexedDBStorage_clear(storage)
    /\ written' = [written EXCEPT !.values = << >>]
    /\ ret' = [op |-> "clear"]
    /\ UNCHANGED outsideStorage

\* storage.saveBlob(id, blob)
StorageSaveBlob(id, blob) ==
    /\ storage.db # "null"
    /\ storage' = IndexedDBStorage_saveBlob(storage, id, blob)
    /\ written' = [written EXCEPT !.blobs = WithProperty(@, id, blob)]
    /\ ret' = [op |-> "saveBlob", id |-> id, blob |-> blob]
    /\ UNCHANGED outsideStorage

\* storage.getBlob(id)
StorageGetBlob(id) ==
    /\ storage.db # "null"
    /\ ret' = [op |-> "getBlob", id |-> id, result |-> IndexedDBStorage_getBlob(storage, id)]
    /\ UNCHANGED << storage, written, outsideStorage >>

-----------------------------------------------------------------------------
(* The service worker's map-tile cache *)

\* Max number of tiles to cache
MAX_TILE_CACHE_SIZE == 500

\* cache.keys(): the requests of the cache, in insertion order
Cache_keys(cache) == cache

\* cache.match(request): is there a response stored for the request
Cache_match(cache, request) == \E k \in 1 .. Len(cache) : cache[k] = request

\* cache.delete(request)
Cache_delete(cache, request) == SelectSeq(cache, LAMBDA r : r # request)

\* cache.put(request, response): replaces the entry of the same request
Cache_put(cache, request) == Append(Cache_delete(cache, request), request)

\* keys.slice(0, Math.floor(MAX_TILE_CACHE_SIZE * 0.1))
OldestTiles(keys) ==
    SubSeq(keys, 1, IF Len(keys) < MAX_TILE_CACHE_SIZE \div 10
                    THEN Len(keys)
                    ELSE MAX_TILE_CACHE_SIZE \div 10)

\* Promise.all(toDelete.map((key) => cache.delete(key)))
DeleteAll(cache, toDelete) ==
    SelectSeq(cache, LAMBDA r : \A k \in 1 .. Len(toDelete) : toDelete[k] # r)

\* the activations of handleTileRequest without activation h, which returned
Returned(handlers, h) ==
    [k \in 1 .. Len(handlers) - 1 |-> IF k < h THEN handlers[k] ELSE handlers[k + 1]]

\* a fetch event of a tile URL: respondWith(handleTileRequest(event.request));
\* the activation runs up to its first await that touches the cache
TileFetchEvent(request) ==
    /\ worker' = [worker EXCEPT
                    !.handlers = Append(@, [request |-> request, at |-> "match",
                                            toDelete |-> << >>])]
    /\ UNCHANGED << ret, outsideWorker >>

\* await cache.match(request) settles: a cached tile is returned at once
TileMatch(h) ==
    /\ h \in 1 .. Len(worker.handlers)
    /\ worker.handlers[h].at = "match"
    /\ IF Cache_match(worker.cache, worker.handlers[h].request)
       THEN /\ worker' = [worker EXCEPT !.handlers = Returned(@, h)]
            /\ ret' = [op |-> "handleTileRequest", status |-> 200, cached |-> TRUE]
       ELSE /\ worker' = [worker EXCEPT !.handlers[h].at = "fetch"]
            /\ UNCHANGED ret
    /\ UNCHANGED outsideWorker

\* await fetch(request) settles: with a 200 response, with another response,
\* which is returned uncached, or with an error, answered by a 503 response
TileFetched(h, outcome) ==
    /\ h \in 1 .. Len(worker.handlers)
    /\ worker.handlers[h].at = "fetch"
    /\ IF outcome = 200
       THEN /\ worker' = [worker EXCEPT !.handlers[h].at = "keys"]
            /\ UNCHANGED ret
       ELSE /\ worker' = [worker EXCEPT !.handlers = Returned(@, h)]
            /\ ret' = [op |-> "handleTileRequest",
                       status |-> IF outcome = 0 THEN 503 ELSE outcome,
                       cached |-> FALSE]
    /\ UNCHANGED outsideWorker

\* await cache.keys() settles: the size check, and the choice of the tiles to
\* delete
TileKeys(h) ==
    /\ h \in 1 .. Len(worker.handlers)
    /\ worker.handlers[h].at = "keys"
    /\ \E keys \in {Cache_keys(worker.cache)} :
         worker' = IF Len(keys) >= MAX_TILE_CACHE_SIZE
                   THEN [worker EXCEPT !.handlers[h].at = "delete",
                                       !.handlers[h].toDelete = OldestTiles(keys)]
                   ELSE [worker EXCEPT !.handlers[h].at = "put"]
    /\ UNCHANGED << ret, outsideWorker >>

\* the deletions of the oldest tiles
TileEvict(h) ==
    /\ h \in 1 .. Len(worker.handlers)
    /\ worker.handlers[h].at = "delete"
    /\ worker' = [worker EXCEPT
                    !.cache = DeleteAll(@, worker.handlers[h].toDelete),
                    !.handlers[h].at = "put"]
    /\ UNCHANGED << ret, outsideWorker >>

\* await cache.put(request, responseToCache), and the return of the response
TilePut(h) ==
    /\ h \in 1 .. Len(worker.handlers)
    /\ worker.handlers[h].at = "put"
    /\ worker' = [worker EXCEPT
                    !.cache = Cache_put(@, worker.handlers[h].request),
                    !.handlers = Returned(@, h)]
    /\ ret' = [op |-> "handleTileRequest", status |-> 200, cached |-> FALSE]
    /\ UNCHANGED outsideWorker

-----------------------------------------------------------------------------
(* A KalmanFilter used on its own *)

\* kf = new KalmanFilter(processNoise, measurementNoise, initialEstimate, initialError)
NewKalmanFilter(processNoise, measurementNoise, initialEstimate, initialError) ==
    /\ kf' = Num(KalmanFilter_new(processNoise, measurementNoise,
                                  initialEstimate, initialError))
    /\ ret' = [op |-> "newFilter"]
    /\ UNCHANGED outsideFilter

\* kf.update(measurement)
FilterUpdate(measurement) ==
    /\ kf # Null
    /\ \E updated \in {KalmanFilter_update(ValueOf(kf), measurement)} :
         /\ kf' = Num(updated)
         /\ ret' = [op |-> "update", measurement |-> measurement,
                    result |-> updated.estimate,
                    kalmanGain |-> KalmanGain(ValueOf(kf).errorCovariance + ValueOf(kf).Q,
                                              ValueOf(kf).R)]
    /\ UNCHANGED outsideFilter

\* kf.reset(initialEstimate)
FilterReset(initialEstimate) ==
    /\ kf # Null
    /\ kf' = Num(KalmanFilter_reset(ValueOf(kf), initialEstimate))
    /\ ret' = [op |-> "filterReset", initialEstimate |-> initialEstimate]
    /\ UNCHANGED outsideFilter

-----------------------------------------------------------------------------
(* Spec: one DistanceEstimator of any radio type, every call on it, up to   *)
(* MaxOps calls after its construction                                      *)

MaxOps == 3

UnknownType == "ZIGBEE"

RadioTypeInputs == {"BLE", "WIFI_5G", UnknownType}

\* an offset that is no multiple of 0.1 dBm: 5.55 dBm
OddOffset == 5 * RssiScale + RssiScale \div 2 + 5

\* the RSSI values tried on an estimator whose model is m
RssiInputs(m) ==
    { m.minRssi - RssiScale, m.minRssi, m.referenceRssi - OddOffset, m.referenceRssi,
      m.maxRssi - RssiScale, m.maxRssi, m.maxRssi + RssiScale }

\* n samples: the first k are base + 1 dBm, the others base
SampleList(n, k, base) ==
    [j \in 1 .. n |-> IF j <= k THEN base + RssiScale ELSE base]

\* the calibrations tried on an estimator whose model is m, each
\* <<knownDistance in 1/100 m, rssiSamples>>: too few samples; a whole mean; a
\* mean halfway between two whole numbers; a mean below the valid range; a
\* known distance away from the reference distance
CalibrationInputs(m) ==
    LET inside == m.referenceRssi - 9 * RssiScale
        below == m.minRssi - 5 * RssiScale
    IN  { << 100, SampleList(MinCalibrationSamples - 1, 0, inside) >>,
          << 100, SampleList(MinCalibrationSamples, 0, inside) >>,
          << 100, SampleList(MinCalibrationSamples + 1, 3, inside) >>,
          << 100, SampleList(MinCalibrationSamples, 0, below) >>,
          << 200, SampleList(MinCalibrationSamples, 3, inside) >> }

UpdateInputs ==
    { [referenceRssi |-> -50 * RssiScale],
      [pathLossExponent |-> 25, maxReliableDistance |-> 10] }

\* one more call counted against MaxOps
Counted == nops < MaxOps /\ nops' = nops + 1

Next ==
    \/ \E t \in RadioTypeInputs :
          est = << >> /\ Construct(t) /\ UNCHANGED nops
    \/ \E i \in DOMAIN est, u \in BOOLEAN :
          \E rssi \in RssiInputs(ModelOf(est[i], SignalModels)) :
             Counted /\ EstimateDistance(i, rssi, u)
    \/ \E i \in DOMAIN est :
          \E c \in CalibrationInputs(ModelOf(est[i], SignalModels)) :
             Counted /\ Calibrate(i, c[1], c[2])
    \/ \E i \in DOMAIN est, updates \in UpdateInputs :
          Counted /\ UpdateModel(i, updates)
    \/ \E i \in DOMAIN est : Counted /\ Reset(i)

Spec == Init /\ [][Next]_vars

-----------------------------------------------------------------------------
(* Properties of DistanceEstimator, checked under Spec *)

\* the model held by the estimator the last call was made on
RetModel == ModelOf(est[ret.id], SignalModels)

\* a new estimator holding the same model as e
FreshLike(e) ==
    IF e.model.ref = "own"
    THEN DistanceEstimator_new("BLE", Num(e.model.obj), SignalModels)
    ELSE DistanceEstimator_new(e.model.ref, Null, SignalModels)

(* C1: a call estimateDistance(rssi, useFilter) with rssi < model.minRssi or  *)
(* rssi > model.maxRssi returns distance null, confidence 0, filteredRssi =   *)
(* rawRssi = rssi and the error "RSSI out of valid range", and changes        *)
(* neither the history, nor the filter, nor the model of any estimator, nor   *)
(* the built-in table.                                                        *)
C1_RejectedLeavesNoTrace ==
    [][ ( /\ ret'.op = "estimateDistance"
          /\ LET m == ModelOf(est[ret'.id], SignalModels)
             IN  ret'.rssi < m.minRssi \/ ret'.rssi > m.maxRssi )
        => /\ ret'.result = [distance |-> Null,
                             confidence |-> 0,
                             filteredRssi |-> ret'.rssi,
                             rawRssi |-> ret'.rssi,
                             error |-> "RSSI out of valid range"]
           /\ est' = est
           /\ getStats(est'[ret'.id]).samples = getStats(est[ret'.id]).samples
           /\ SignalModels' = SignalModels ]_vars

\* a reading above the range was rejected by an estimator that holds readings
C1_Witness ==
    /\ ret.op = "estimateDistance"
    /\ ret.rssi > RetModel.maxRssi
    /\ "error" \in DOMAIN ret.result
    /\ Len(est[ret.id].rawHistory) > 0
    /\ est[ret.id].kalmanFilter.sampleCount > 0

(* C2: the distance estimateDistance returns is null exactly when rssi is     *)
(* outside [model.minRssi, model.maxRssi]; both ends of the range are         *)
(* accepted and give a number.                                                *)
C2_NullIffOutOfRange ==
    ret.op = "estimateDistance"
    => LET m == RetModel
       IN  /\ (ret.result.distance = Null)
                <=> (ret.rssi < m.minRssi \/ ret.rssi > m.maxRssi)
           /\ ret.rssi \in {m.minRssi, m.maxRssi}
                => ret.result.distance # Null /\ ValueOf(ret.result.distance) >= 0

\* a reading equal to minRssi was accepted
C2_Witness ==
    /\ ret.op = "estimateDistance"
    /\ ret.rssi = RetModel.minRssi
    /\ ret.result.distance # Null
    /\ ValueOf(ret.result.distance) > 0

(* C5: estimateDistance(rssi, false) on an in-range rssi leaves the filter's  *)
(* estimate, errorCovariance and sampleCount as they were, and computes the   *)
(* distance from rssi itself: the local filteredRssi is rssi (the returned    *)
(* filteredRssi is rssi rounded to one decimal).                              *)
C5_UnfilteredLeavesFilter ==
    [][ ( /\ ret'.op = "estimateDistance"
          /\ ~ ret'.useFilter
          /\ LET m == ModelOf(est[ret'.id], SignalModels)
             IN  m.minRssi <= ret'.rssi /\ ret'.rssi <= m.maxRssi )
        => LET m == ModelOf(est[ret'.id], SignalModels)
           IN  /\ est'[ret'.id].kalmanFilter = est[ret'.id].kalmanFilter
               /\ ret'.locals.filteredRssi = ret'.rssi
               /\ ret'.result.filteredRssi = Round1(ret'.rssi)
               /\ ret'.result.distance
                    = Num(MathRound(PathLossDistance(m, ret'.rssi), DistScale \div 100)) ]_vars

\* an unfiltered reading, no multiple of 0.1 dBm, was accepted by an estimator
\* whose filter has been updated before
C5_Witness ==
    /\ ret.op = "estimateDistance"
    /\ ~ ret.useFilter
    /\ ret.accepted
    /\ ret.rssi # Round1(ret.rssi)
    /\ est[ret.id].kalmanFilter.sampleCount > 0

(* C6 as claimed: of two in-range readings a > b made one after the other on  *)
(* the same estimator with useFilter = true, in either order, the distance    *)
(* returned for a is <= the distance returned for b.                          *)
C6_MonotoneInSequence ==
    [][ ( /\ ret.op = "estimateDistance" /\ ret'.op = "estimateDistance"
          /\ ret.id = ret'.id
          /\ ret.useFilter /\ ret'.useFilter
          /\ ret.accepted /\ ret'.accepted
          /\ ret.rssi # ret'.rssi )
        => IF ret.rssi > ret'.rssi
           THEN ValueOf(ret.result.distance) <= ValueOf(ret'.result.distance)
           ELSE ValueOf(ret'.result.distance) <= ValueOf(ret.result.distance) ]_vars

(* C6 amended: from one and the same state of an estimator, for in-range      *)
(* readings a > b, the distance estimateDistance(a) returns is <= the         *)
(* distance estimateDistance(b) returns (useFilter = true).                   *)
C6_MonotoneFromSameState ==
    \A i \in DOMAIN est :
        LET m == ModelOf(est[i], SignalModels)
            inRange == { x \in RssiInputs(m) : m.minRssi <= x /\ x <= m.maxRssi }
            d(x) == ValueOf(estimateDistance(est[i], SignalModels, x, TRUE, now)
                               .result.distance)
        IN  \A a, b \in inRange : a > b => d(a) <= d(b)

\* an estimator whose filter has left its initial estimate
C6_Witness ==
    \E i \in DOMAIN est :
        /\ est[i].kalmanFilter.sampleCount >= 2
        /\ est[i].kalmanFilter.estimate # ModelOf(est[i], SignalModels).referenceRssi
        /\ Len(est[i].rawHistory) >= 2

(* C8: after reset() getStats().samples is 0 and the estimator is in the      *)
(* state of a newly constructed estimator holding the same model (so every    *)
(* later estimateDistance returns what it would return there).                *)
C8_ResetIsFresh ==
    ret.op = "reset"
    => /\ getStats(est[ret.id]).samples = 0
       /\ est[ret.id] = FreshLike(est[ret.id])
       /\ \A u \in BOOLEAN, x \in RssiInputs(RetModel) :
             estimateDistance(est[ret.id], SignalModels, x, u, now).result
               = estimateDistance(FreshLike(est[ret.id]), SignalModels, x, u, now).result

\* reset() on an estimator that had taken readings and whose model was calibrated
C8_Witness ==
    /\ ret.op = "reset"
    /\ readings[ret.id].total > 0
    /\ est[ret.id].model.ref # "own"
    /\ RetModel.referenceRssi
         # InitialSignalModels[est[ret.id].model.ref].referenceRssi
    /\ est[ret.id].kalmanFilter.estimate = RetModel.referenceRssi

(* C9: calibrate with fewer than 5 samples returns false and changes neither  *)
(* a model, nor a filter, nor a history; with 5 or more samples it returns    *)
(* true.                                                                      *)
C9_CalibrateNeedsFiveSamples ==
    [][ ret'.op = "calibrate"
        => IF Len(ret'.rssiSamples) < 5
           THEN ret'.result = FALSE /\ est' = est /\ SignalModels' = SignalModels
           ELSE ret'.result = TRUE ]_vars

\* calibrate refused 4 samples on an estimator that holds readings
C9_Witness ==
    /\ ret.op = "calibrate"
    /\ Len(ret.rssiSamples) = 4
    /\ ret.result = FALSE
    /\ Len(est[ret.id].rawHistory) > 0

\* Math.round(mean of the samples), in 1/RssiScale dBm
RoundedMean(rssiSamples) ==
    MathRound(SumSeq(rssiSamples), Len(rssiSamples) * RssiScale) * RssiScale

\* calibrate(1.0, samples) with at least 5 samples
CalibratedAtOneMeter(r) ==
    r.op = "calibrate" /\ r.knownDistance = 100 /\ Len(r.rssiSamples) >= 5

\* what calibrate(1.0, samples) leaves behind
C10_AfterCalibrate ==
    CalibratedAtOneMeter(ret')
    => LET e == est'[ret'.id]
       IN  /\ ModelOf(e, SignalModels').referenceRssi = RoundedMean(ret'.rssiSamples)
           /\ e.kalmanFilter.estimate
                = MathRound(SumSeq(ret'.rssiSamples), Len(ret'.rssiSamples))
           /\ e.kalmanFilter.sampleCount = 0
           /\ e.kalmanFilter.errorCovariance = CovScale

\* the call estimateDistance(round(m), false) right after calibrate(1.0, samples)
C10_ThenEstimate ==
    /\ CalibratedAtOneMeter(ret)
    /\ ret'.op = "estimateDistance"
    /\ ret'.id = ret.id
    /\ ~ ret'.useFilter
    /\ ret'.rssi = RoundedMean(ret.rssiSamples)

(* C10 as claimed: after calibrate(1.0, samples) with at least 5 samples of   *)
(* mean m, referenceRssi is round(m), the filter is reset to m with           *)
(* sampleCount 0, and estimateDistance(round(m), false) returns the           *)
(* reference distance.                                                        *)
C10_RoundTripAnySamples ==
    [][ /\ C10_AfterCalibrate
        /\ C10_ThenEstimate
             => ret'.result.distance
                  = Num(10 * ModelOf(est[ret.id], SignalModels).referenceDistance) ]_vars

(* C10 amended: the same, where estimateDistance(round(m), false) returns the *)
(* reference distance provided round(m) lies in [minRssi, maxRssi], and null  *)
(* otherwise.                                                                 *)
C10_RoundTripInRange ==
    [][ /\ C10_AfterCalibrate
        /\ C10_ThenEstimate
             => LET m == ModelOf(est[ret.id], SignalModels)
                IN  IF m.minRssi <= ret'.rssi /\ ret'.rssi <= m.maxRssi
                    THEN ret'.result.distance = Num(10 * m.referenceDistance)
                    ELSE ret'.result.distance = Null ]_vars

\* the reference distance was returned at the reference RSSI by an estimator
\* calibrated with samples whose mean lies halfway between two whole numbers
C10_Witness ==
    /\ ret.op = "estimateDistance"
    /\ ~ ret.useFilter
    /\ ret.rssi = RetModel.referenceRssi
    /\ ret.result.distance = Num(100)
    /\ est[ret.id].kalmanFilter.sampleCount = 0
    /\ Abs(est[ret.id].kalmanFilter.estimate - RetModel.referenceRssi) = RssiScale \div 2

-----------------------------------------------------------------------------
(* SpecMono: one estimator of each built-in radio type, MonoCalls unfiltered *)
(* readings of a whole number of dBm, every value of the valid range          *)

MonoCalls == 2

WholeDbm(m) ==
    { x * RssiScale : x \in (m.minRssi \div RssiScale) .. (m.maxRssi \div RssiScale) }

NextMono ==
    \/ \E t \in BuiltinTypes : est = << >> /\ Construct(t) /\ UNCHANGED nops
    \/ \E i \in DOMAIN est :
         \E rssi \in WholeDbm(ModelOf(est[i], SignalModels)) :
            /\ nops < MonoCalls
            /\ nops' = nops + 1
            /\ EstimateDistance(i, rssi, FALSE)

SpecMono == Init /\ [][NextMono]_vars

\* two unfiltered calls on one estimator, one after the other, the second with
\* the weaker reading
WeakerFollowsStronger ==
    /\ ret.op = "estimateDistance" /\ ret'.op = "estimateDistance"
    /\ ret.id = ret'.id
    /\ ~ ret.useFilter /\ ~ ret'.useFilter
    /\ ret.accepted /\ ret'.accepted
    /\ ret.rssi > ret'.rssi

\* the same, the second with the stronger reading
StrongerFollowsWeaker ==
    /\ ret.op = "estimateDistance" /\ ret'.op = "estimateDistance"
    /\ ret.id = ret'.id
    /\ ~ ret.useFilter /\ ~ ret'.useFilter
    /\ ret.accepted /\ ret'.accepted
    /\ ret.rssi < ret'.rssi

(* C7 as claimed: with useFilter = false, for every built-in model and every  *)
(* pair of in-range whole RSSI values a > b, the distance returned for b      *)
(* (rounded to 2 decimals) is strictly greater than the one returned for a.   *)
C7_StrictlyLargerRounded ==
    [][ /\ WeakerFollowsStronger
          => ValueOf(ret'.result.distance) > ValueOf(ret.result.distance)
        /\ StrongerFollowsWeaker
          => ValueOf(ret'.result.distance) < ValueOf(ret.result.distance) ]_vars

(* C7 amended: with useFilter = false, for every built-in model and every     *)
(* pair of in-range whole RSSI values a > b, the distance returned for b is   *)
(* greater than or equal to the one returned for a, and the distance before   *)
(* rounding to 2 decimals is strictly greater.                                *)
C7_LargerRoundedStrictlyLargerUnrounded ==
    [][ /\ WeakerFollowsStronger
          => /\ ValueOf(ret'.result.distance) >= ValueOf(ret.result.distance)
             /\ ret'.locals.distance > ret.locals.distance
        /\ StrongerFollowsWeaker
          => /\ ValueOf(ret'.result.distance) <= ValueOf(ret.result.distance)
             /\ ret'.locals.distance < ret.locals.distance ]_vars

\* two readings 1 dBm apart whose distances round to the same 2-decimal value
C7_Witness ==
    /\ ret.op = "estimateDistance"
    /\ ~ ret.useFilter
    /\ Len(est[ret.id].rawHistory) = 2
    /\ est[ret.id].rawHistory[1].rssi = ret.rssi + RssiScale
    /\ ret.result.distance
         = Num(MathRound(PathLossDistance(RetModel, ret.rssi + RssiScale),
                         DistScale \div 100))
    /\ ret.locals.distance > PathLossDistance(RetModel, ret.rssi + RssiScale)

-----------------------------------------------------------------------------
(* SpecHistory: the BLE estimator of a MultiRadioEstimator is fed readings    *)
(* until its history is one short of maxHistoryLength; then up to HistoryOps  *)
(* calls of any kind are made on it and on its owner                          *)

HistoryOps == 3

FillRssi == -65 * RssiScale

HistoryRssi == { -65 * RssiScale, -70 * RssiScale - 50, -19 * RssiScale }

HistorySamples == SampleList(MinCalibrationSamples, 2, -68 * RssiScale)

Filling ==
    /\ nops = 0
    /\ \A i \in DOMAIN est : Len(est[i].rawHistory) < MaxHistoryLength - 1

CountedHistory == ~ Filling /\ nops < HistoryOps /\ nops' = nops + 1

NextHistory ==
    \/ Filling /\ AddReading("BLE", FillRssi) /\ UNCHANGED nops
    \/ \E rssi \in HistoryRssi : CountedHistory /\ AddReading("BLE", rssi)
    \/ \E i \in DOMAIN est, u \in BOOLEAN :
          CountedHistory /\ EstimateDistance(i, -70 * RssiScale - 50, u)
    \/ \E i \in DOMAIN est : CountedHistory /\ Calibrate(i, 100, HistorySamples)
    \/ \E i \in DOMAIN est :
          CountedHistory /\ UpdateModel(i, [referenceRssi |-> -50 * RssiScale])
    \/ \E i \in DOMAIN est : CountedHistory /\ Reset(i)
    \/ CountedHistory /\ GetFusedEstimate
    \/ CountedHistory /\ MultiReset

SpecHistory == Init /\ [][NextHistory]_vars

\* the history of estimator i before the step (empty if it does not exist yet)
HistoryBefore(i) == IF i \in DOMAIN est THEN est[i].rawHistory ELSE << >>

\* the step records a reading in the history of estimator i
ReadingRecorded(i) ==
    readings'[i].total > (IF i \in DOMAIN readings THEN readings[i].total ELSE 0)

\* the history never holds more than 50 entries, and a recorded reading goes
\* to its end, pushing out exactly the oldest entry when 50 are held
HistoryIsFifo(i) ==
    LET before == HistoryBefore(i)
        after == est'[i].rawHistory
    IN  /\ Len(after) <= 50
        /\ ReadingRecorded(i) /\ Len(before) = 50
             => /\ Len(after) = 50
                /\ SubSeq(after, 1, 49) = Tail(before)
                /\ after[50].timestamp = now
        /\ ReadingRecorded(i) /\ Len(before) < 50
             => /\ Len(after) = Len(before) + 1
                /\ SubSeq(after, 1, Len(before)) = before
                /\ after[Len(after)].timestamp = now

(* C3 as claimed: the history holds at most 50 entries, oldest evicted first, *)
(* and after n accepted readings getStats().samples = min(n, 50), n counting  *)
(* every reading the estimator has accepted.                                  *)
C3_SamplesIsMinOfAccepted ==
    [][ \A i \in DOMAIN est' :
          /\ HistoryIsFifo(i)
          /\ getStats(est'[i]).samples = Min(readings'[i].total, 50) ]_vars

(* C3 amended: the history holds at most 50 entries, oldest evicted first,    *)
(* and getStats().samples = min(n, 50) where n counts the readings recorded   *)
(* since the estimator was constructed or last reset (reset() or the owner's  *)
(* reset()), including the one each getFusedEstimate of its owner records.    *)
C3_SamplesIsMinSinceReset ==
    [][ \A i \in DOMAIN est' :
          /\ HistoryIsFifo(i)
          /\ getStats(est'[i]).samples = Min(readings'[i].sinceClear, 50) ]_vars

\* more than 50 readings were recorded, the last one by getFusedEstimate, and
\* the oldest ones are gone
C3_Witness ==
    /\ ret.op = "getFusedEstimate"
    /\ \E i \in DOMAIN est :
          /\ readings[i].sinceClear > 50
          /\ Len(est[i].rawHistory) = 50
          /\ est[i].rawHistory[1].timestamp > 0
          /\ est[i].rawHistory[50].timestamp = now - 1

-----------------------------------------------------------------------------
(* SpecShare: up to ShareEstimators estimators of the same or of different    *)
(* radio types and a MultiRadioEstimator, up to ShareOps calls                *)

ShareEstimators == 2

ShareOps == 3

ShareTypes == {"BLE", "WIFI_2G"}

ShareRssi(m) == { m.referenceRssi, m.referenceRssi - OddOffset }

ShareCalibrations(m) ==
    { <<100, SampleList(MinCalibrationSamples, 0, m.referenceRssi - 9 * RssiScale)>>,
      <<200, SampleList(MinCalibrationSamples, 3, m.referenceRssi - 9 * RssiScale)>> }

CountedShare == nops < ShareOps /\ nops' = nops + 1

NextShare ==
    \/ \E t \in ShareTypes :
          /\ Len(est) < ShareEstimators
          /\ multi = << >>
          /\ nops = 0
          /\ Construct(t)
          /\ UNCHANGED nops
    \/ \E i \in DOMAIN est :
          \E c \in ShareCalibrations(ModelOf(est[i], SignalModels)) :
             CountedShare /\ Calibrate(i, c[1], c[2])
    \/ \E i \in DOMAIN est :
          \E rssi \in ShareRssi(ModelOf(est[i], SignalModels)) :
             CountedShare /\ EstimateDistance(i, rssi, FALSE)
    \/ \E t \in ShareTypes :
          CountedShare /\ AddReading(t, InitialSignalModels[t].referenceRssi)

SpecShare == Init /\ [][NextShare]_vars

(* C4: a successful calibrate on one estimator changes no entry of the        *)
(* built-in SignalModels table and no other estimator's model, and every      *)
(* other estimator returns the distances it returned before; an estimator a   *)
(* MultiRadioEstimator creates afterwards holds the built-in referenceRssi.   *)
C4_CalibrationIsolated ==
    [][ /\ (ret'.op = "calibrate" /\ ret'.result = TRUE)
          => /\ SignalModels' = SignalModels
             /\ \A j \in DOMAIN est \ {ret'.id} :
                   /\ ModelOf(est'[j], SignalModels') = ModelOf(est[j], SignalModels)
                   /\ \A x \in ShareRssi(ModelOf(est[j], SignalModels)) :
                         estimateDistance(est'[j], SignalModels', x, FALSE, now)
                              .result.distance
                           = estimateDistance(est[j], SignalModels, x, FALSE, now)
                              .result.distance
        /\ (ret'.op = "addReading" /\ Len(est') > Len(est))
          => ModelOf(est'[ret'.id], SignalModels').referenceRssi
               = InitialSignalModels[ret'.radioType].referenceRssi ]_vars

-----------------------------------------------------------------------------
(* SpecCalibrate: one estimator with a built-in model or with a custom model  *)
(* whose referenceDistance is 2.0 m, calibrated up to CalibrateOps times at   *)
(* distances around 1.0 m and around 2.0 m, and read at its reference RSSI    *)

CalibrateOps == 2

\* the BLE model with referenceDistance 2.0 and the reference RSSI measured there
TwoMeterModel ==
    [InitialSignalModels["BLE"] EXCEPT !.name = "Custom",
                                       !.referenceDistance = 20,
                                       !.referenceRssi = -65 * RssiScale]

CalibrateDistances == {90, 91, 100, 109, 110, 150, 191, 200, 209, 400}

CalibrateSamples ==
    { SampleList(MinCalibrationSamples, 0, -70 * RssiScale),
      SampleList(MinCalibrationSamples + 1, 3, -63 * RssiScale) }

CountedCalibrate == nops < CalibrateOps /\ nops' = nops + 1

NextCalibrate ==
    \/ \E t \in {"BLE", "WIFI_2G"} : est = << >> /\ Construct(t) /\ UNCHANGED nops
    \/ est = << >> /\ ConstructCustom("BLE", TwoMeterModel) /\ UNCHANGED nops
    \/ \E i \in DOMAIN est, d \in CalibrateDistances, samples \in CalibrateSamples :
          CountedCalibrate /\ Calibrate(i, d, samples)
    \/ \E i \in DOMAIN est :
          /\ ret.op = "calibrate"
          /\ EstimateDistance(i, ModelOf(est[i], SignalModels).referenceRssi, FALSE)
          /\ UNCHANGED nops

SpecCalibrate == Init /\ [][NextCalibrate]_vars

\* Math.round(mean + 10 * pathLossExponent * Math.log10(knownDistance)), in
\* 1/RssiScale dBm
BackSolved(m, knownDistance, rssiSamples) ==
    MathRound(SumSeq(rssiSamples) * (DistScale \div RssiScale)
                + m.pathLossExponent * MathLog10(knownDistance) * Len(rssiSamples),
              Len(rssiSamples) * DistScale) * RssiScale

(* C11: calibrate sets referenceRssi = round(mean of samples) when            *)
(* knownDistance is less than 0.1 m away from the estimator's own             *)
(* model.referenceDistance, whatever that is, and back-solves the path-loss   *)
(* equation when it is more than 0.1 m away.                                  *)
C11_DirectNearReferenceDistance ==
    [][ (ret'.op = "calibrate" /\ ret'.result = TRUE)
        => LET m == ModelOf(est[ret'.id], SignalModels)
               off == Abs(ret'.knownDistance - 10 * m.referenceDistance)
               stored == ModelOf(est'[ret'.id], SignalModels').referenceRssi
           IN  /\ off < 10 => stored = RoundedMean(ret'.rssiSamples)
               /\ off > 10 => stored = BackSolved(m, ret'.knownDistance, ret'.rssiSamples) ]_vars

-----------------------------------------------------------------------------
(* SpecFusion: one MultiRadioEstimator, up to FusionOps calls: addReading     *)
(* for the built-in radio types and an unknown one (a radio type is first     *)
(* seen in the order of FusionTypes), getFusedEstimate, reset, and            *)
(* getEstimator("BLE").updateModel                                            *)

FusionOps == 6

FusionReadings == 2

FusionTypes == << "BLE", "WIFI_2G", "WIFI_5G", "LORA", UnknownType >>

\* the readings given for a radio type: 6 dBm below the reference RSSI of its
\* built-in model, the weakest valid one, and 1 dBm above its valid range
FusionRssi(t) ==
    LET m == InitialSignalModels[IF t \in BuiltinTypes THEN t ELSE "BLE"]
    IN  { m.referenceRssi - 6 * RssiScale, m.minRssi, m.maxRssi + RssiScale }

\* a reference RSSI so low that a reading at -59 dBm is nearer than 5 mm
FusionUpdate == [referenceRssi |-> -120 * RssiScale]

\* the readings addReading has passed to the filter of the estimator of t
FilteredSoFar(t) ==
    IF HasEstimator(multi, t)
    THEN est[EstimatorId(multi, t)].kalmanFilter.sampleCount
    ELSE 0

CountedFusion == nops < FusionOps /\ nops' = nops + 1

NextFusion ==
    \/ \E k \in 1 .. Len(FusionTypes) : \E rssi \in FusionRssi(FusionTypes[k]) :
          /\ k <= Len(multi) + 1
          /\ FilteredSoFar(FusionTypes[k]) < FusionReadings
          /\ CountedFusion
          /\ AddReading(FusionTypes[k], rssi)
    \/ CountedFusion /\ GetFusedEstimate
    \/ multi # << >> /\ ret.op # "multiReset" /\ CountedFusion /\ MultiReset
    \/ /\ HasEstimator(multi, "BLE")
       /\ est[EstimatorId(multi, "BLE")].model.ref # "own"
       /\ CountedFusion
       /\ UpdateModel(EstimatorId(multi, "BLE"), FusionUpdate)

SpecFusion == Init /\ [][NextFusion]_vars

\* nothing but addReading has been done so far: every model is the built-in
\* one, and every reading an estimator recorded went through its filter and
\* is still in its history
OnlyReadingsSoFar ==
    /\ SignalModels = InitialSignalModels
    /\ \A k \in 1 .. Len(multi) :
          LET id == multi[k].id
          IN  /\ est[id].model.ref # "own"
              /\ est[id].kalmanFilter.sampleCount = readings[id].total
              /\ readings[id].sinceClear = readings[id].total

\* the radio types for which addReading has accepted a reading
AcceptedTypes ==
    { multi[k].radioType : k \in { j \in 1 .. Len(multi) : readings[multi[j].id].total > 0 } }

(* C12: when addReading has accepted a reading for each of exactly k radio    *)
(* types and nothing else was done, getFusedEstimate returns sources = k and  *)
(* a breakdown of k entries, one for each of these radio types; a radio type  *)
(* whose readings were all rejected does not count.                           *)
C12_SourcesCountAcceptedTypes ==
    [][ (ret'.op = "getFusedEstimate" /\ OnlyReadingsSoFar)
        => LET k == Cardinality(AcceptedTypes)
               r == ret'.result
           IN  /\ r.sources = k
               /\ k > 0 => /\ Len(r.breakdown) = k
                           /\ { r.breakdown[j].radioType : j \in 1 .. k } = AcceptedTypes ]_vars

\* getFusedEstimate counted 2 sources where 3 radio types were given readings,
\* one of them only rejected ones, and one of the others 2 readings
C12_Witness ==
    /\ ret.op = "getFusedEstimate"
    /\ ret.result.sources = 2
    /\ Len(multi) = 3
    /\ \E k \in 1 .. 3 : est[multi[k].id].rawHistory = << >>
    /\ \E k \in 1 .. 3 : est[multi[k].id].kalmanFilter.sampleCount = 2
    /\ \A k \in 1 .. 3 :
          /\ est[multi[k].id].model.ref # "own"
          /\ readings[multi[k].id].sinceClear <= est[multi[k].id].kalmanFilter.sampleCount + 1

\* getFusedEstimate has returned an estimate with at least one source
FusedWithSources == ret.op = "getFusedEstimate" /\ ret.result.sources > 0

(* C13 as claimed: whenever at least one source contributes, the confidence   *)
(* getFusedEstimate returns lies in [0, 1], whatever the number of radio      *)
(* types that have readings.                                                  *)
C13_FusedConfidenceAtMostOne ==
    FusedWithSources
    => 0 <= ret.result.confidence /\ ret.result.confidence <= 100

(* C13 amended: whenever at least one source contributes, the confidence      *)
(* getFusedEstimate returns lies in [0, sources / 3] (rounded to 2 decimals), *)
(* so in [0, 1] when at most 3 radio types contribute.                        *)
C13_FusedConfidenceAtMostSourcesOverThree ==
    FusedWithSources
    => /\ 0 <= ret.result.confidence
       /\ ret.result.confidence <= MathRound(100 * ret.result.sources, 3)
       /\ ret.result.sources <= 3 => ret.result.confidence <= 100

\* 4 or more radio types contributed and the fused confidence is above 1
C13_Witness ==
    /\ FusedWithSources
    /\ ret.result.sources >= 4
    /\ ret.result.confidence > 100

\* the largest confidence in the breakdown of the returned estimate
MaxBreakdownConfidence ==
    LET b == ret.result.breakdown
    IN  CHOOSE c \in { b[j].confidence : j \in 1 .. Len(b) } :
           \A j \in 1 .. Len(b) : b[j].confidence <= c

(* C14: whenever at least one source contributes, the confidence              *)
(* getFusedEstimate returns is max(confidence over breakdown) * sources / 3   *)
(* rounded to 2 decimals, not clamped, and sources is the length of           *)
(* breakdown.                                                                 *)
C14_FusedConfidenceFormula ==
    FusedWithSources
    => /\ ret.result.sources = Len(ret.result.breakdown)
       /\ ret.result.confidence
            = MathRound(MaxBreakdownConfidence * ret.result.sources, 3)

\* an estimate whose sources differ in confidence and whose fused confidence,
\* by the formula, is above 1
C14_Witness ==
    /\ FusedWithSources
    /\ ret.result.confidence > 100
    /\ \E j \in 1 .. Len(ret.result.breakdown) :
          ret.result.breakdown[j].confidence < MaxBreakdownConfidence

\* this.fusionWeights[radioType] || 0.5 as the spec gives it, in 1/10
DocumentedWeight(radioType) ==
    IF radioType = "BLE" THEN 10
    ELSE IF radioType = "WIFI_2G" THEN 8
    ELSE IF radioType = "WIFI_5G" THEN 7
    ELSE 5

(* C15: whenever at least one source contributes, every source carries the    *)
(* fusion weight of its radio type, the distance getFusedEstimate returns is  *)
(* null only if the total of weight * confidence is zero, and otherwise lies  *)
(* between the smallest and the largest distance in breakdown.                *)
C15_FusedDistanceIsWeightedAverage ==
    FusedWithSources
    => LET b == ret.result.breakdown
           J == 1 .. Len(b)
       IN  /\ \A j \in J : b[j].weight = DocumentedWeight(b[j].radioType)
           /\ ret.result.distance = Null
                => \A j \in J : b[j].weight * b[j].confidence = 0
           /\ ret.result.distance # Null
                => /\ \E j \in J : b[j].distance <= ValueOf(ret.result.distance)
                   /\ \E j \in J : ValueOf(ret.result.distance) <= b[j].distance

\* the result getFusedEstimate returns when no source contributes
NoValidEstimates ==
    [distance |-> Null,
     confidence |-> 0,
     sources |-> 0,
     error |-> "No valid estimates available"]

(* C16: getFusedEstimate returns distance null, confidence 0, sources 0 and   *)
(* the error "No valid estimates available" when no estimator of the          *)
(* MultiRadioEstimator holds a reading: none exists yet, every reading so far *)
(* was rejected, or reset() was the call before.                              *)
C16_NoSourcesNoEstimate ==
    [][ /\ ( /\ ret'.op = "getFusedEstimate"
             /\ \A k \in 1 .. Len(multi) : readings[multi[k].id].sinceClear = 0 )
           => ret'.result = NoValidEstimates /\ est' = est
        /\ (ret.op = "multiReset" /\ ret'.op = "getFusedEstimate")
           => ret'.result = NoValidEstimates /\ est' = est ]_vars

\* getFusedEstimate found no source right after a reset() that emptied the
\* histories of 2 radio types
C16_Witness ==
    /\ ret.op = "getFusedEstimate"
    /\ ret.result = NoValidEstimates
    /\ Len(multi) >= 2
    /\ \A k \in 1 .. Len(multi) :
          /\ readings[multi[k].id].total > 0
          /\ readings[multi[k].id].sinceClear = 0

-----------------------------------------------------------------------------
(* Properties of the built-in models, checked under SpecMono *)

(* C17: on an uncalibrated estimator of any built-in radio type,              *)
(* estimateDistance(model.referenceRssi, false) returns the model's           *)
(* referenceDistance, 1.0, and reports the estimate reliable.                 *)
C17_ReferencePointIdentity ==
    ( /\ ret.op = "estimateDistance"
      /\ ~ ret.useFilter
      /\ ret.rssi = InitialSignalModels[est[ret.id].model.ref].referenceRssi )
    => /\ SignalModels = InitialSignalModels
       /\ ret.result.distance = Num(10 * RetModel.referenceDistance)
       /\ ret.result.distance = Num(100)
       /\ ret.result.reliable = TRUE

\* the LoRa estimator returned 1.0 at -30 dBm after a reading at another RSSI
C17_Witness ==
    /\ ret.op = "estimateDistance"
    /\ est[ret.id].model.ref = "LORA"
    /\ ret.rssi = -30 * RssiScale
    /\ ret.result.distance = Num(100)
    /\ Len(est[ret.id].rawHistory) = 2
    /\ est[ret.id].rawHistory[1].rssi # ret.rssi

-----------------------------------------------------------------------------
(* SpecTwin: an estimator constructed with an unknown radio type and one      *)
(* constructed with "BLE" are given the same TwinCalls calls                  *)

TwinCalls == 3

NextTwin ==
    \/ est = << >> /\ Construct(UnknownType) /\ UNCHANGED nops
    \/ Len(est) = 1 /\ Construct("BLE") /\ UNCHANGED nops
    \/ \E u \in BOOLEAN : \E rssi \in RssiInputs(InitialSignalModels["BLE"]) :
          /\ Len(est) = 2
          /\ nops < TwinCalls
          /\ nops' = nops + 1
          /\ EstimateBoth(1, 2, rssi, u)

SpecTwin == Init /\ [][NextTwin]_vars

-----------------------------------------------------------------------------
(* The confidence score, checked under Spec *)

\* a value in [0, 1], in 1/ConfScale
IsFraction(x) == 0 <= x /\ x <= ConfScale

(* C19: every estimate returned by estimateDistance has a confidence in       *)
(* [0, 1]: 0 when the RSSI is rejected, and for an accepted RSSI the 2-decimal *)
(* rounding of 0.25 * filterConfidence + 0.25 * min(historyLength / 10, 1)    *)
(* + 0.30 * stability + 0.20 * distanceConfidence, each factor in [0, 1].     *)
C19_ConfidenceIsWeightedSum ==
    ret.op = "estimateDistance"
    => IF ~ ret.accepted
       THEN ret.result.confidence = 0
       ELSE LET e == est[ret.id]
                filterConfidence == KalmanFilter_getConfidence(e.kalmanFilter)
                sampleConfidence == Min((Len(e.rawHistory) * ConfScale) \div 10, ConfScale)
                stability == calculateRssiStability(e)
                distanceConfidence ==
                    IF ret.locals.distance <= RetModel.maxReliableDistance * DistScale
                    THEN ConfScale - (ret.locals.distance * 10)
                                        \div (RetModel.maxReliableDistance * 2)
                    ELSE ConfScale \div 10
            IN  /\ IsFraction(filterConfidence)
                /\ IsFraction(sampleConfidence)
                /\ IsFraction(stability)
                /\ IsFraction(distanceConfidence)
                /\ ret.result.confidence
                     = MathRound(25 * filterConfidence + 25 * sampleConfidence
                                   + 30 * stability + 20 * distanceConfidence,
                                 ConfScale)
                /\ 0 <= ret.result.confidence
                /\ ret.result.confidence <= 100

\* the third reading of an unsteady history was accepted, at a distance beyond
\* the reliable one
C19_Witness ==
    /\ ret.op = "estimateDistance"
    /\ ret.accepted
    /\ Len(est[ret.id].rawHistory) = 3
    /\ calculateRssiStability(est[ret.id]) < ConfScale
    /\ ~ ret.result.reliable

-----------------------------------------------------------------------------
(* SpecStream: a fresh estimator of a built-in type is fed StreamLen          *)
(* identical filtered readings, of any whole number of dBm in range           *)

StreamLen == 12

NextStream ==
    \/ \E t \in BuiltinTypes : est = << >> /\ Construct(t) /\ UNCHANGED nops
    \/ \E i \in DOMAIN est :
         \E rssi \in WholeDbm(ModelOf(est[i], SignalModels)) :
            /\ ret.op = "estimateDistance" => rssi = ret.rssi
            /\ nops < StreamLen
            /\ nops' = nops + 1
            /\ EstimateDistance(i, rssi, TRUE)

SpecStream == Init /\ [][NextStream]_vars

\* one more reading of the stream follows an earlier one
StreamContinues == ret.op = "estimateDistance" /\ ret'.op = "estimateDistance"

(* C20 as claimed: on a fresh estimator fed identical in-range readings with  *)
(* useFilter = true, the confidence a call returns is never lower than the    *)
(* confidence of the call before it (hence of any earlier call), for every    *)
(* built-in model and every in-range reading.                                 *)
C20_ConfidenceNeverDrops ==
    [][ StreamContinues
        => ret'.result.confidence >= ret.result.confidence ]_vars

(* C20 as it holds: the same, for readings at or above the model's            *)
(* referenceRssi, and for the BLE stream at -60 dBm.                          *)
C20_ConfidenceNeverDropsNearby ==
    [][ ( /\ StreamContinues
          /\ \/ ret'.rssi >= RetModel.referenceRssi
             \/ est[ret'.id].model = TableRef("BLE") /\ ret'.rssi = -60 * RssiScale )
        => ret'.result.confidence >= ret.result.confidence ]_vars

\* the last reading of a stream stronger than the reference
C20_Witness ==
    /\ ret.op = "estimateDistance"
    /\ Len(est[ret.id].rawHistory) = StreamLen
    /\ ret.rssi > RetModel.referenceRssi
    /\ ret.result.confidence > 90

-----------------------------------------------------------------------------
(* SpecConverge: a KalmanFilter constructed as in the test (0.125, 4, -60, 1) *)
(* is fed the same measurement, a whole number of dBm between the weakest and *)
(* the strongest RSSI any built-in model accepts, ConvergeUpdates times       *)

ConvergeUpdates == 12

ConvergeMeasurements == { x * RssiScale : x \in -140 .. -10 }

NextConverge ==
    \/ /\ kf = Null
       /\ NewKalmanFilter(DefaultProcessNoise, DefaultMeasurementNoise,
                          DefaultInitialEstimate, DefaultInitialError)
       /\ UNCHANGED nops
    \/ \E m \in ConvergeMeasurements :
          /\ ret.op = "update" => m = ret.measurement
          /\ nops < ConvergeUpdates
          /\ nops' = nops + 1
          /\ FilterUpdate(m)

SpecConverge == Init /\ [][NextConverge]_vars

\* the same measurement has been fed 10 times or more
FedTenTimes == ret.op = "update" /\ ValueOf(kf).sampleCount >= 10

(* C21 as claimed: after the same measurement m, any value in the valid RSSI  *)
(* range, has been fed 10 times or more into a fresh KalmanFilter(0.125, 4,   *)
(* -60, 1), the estimate is within 2 dBm of m.                                *)
C21_WithinTwoDbm ==
    FedTenTimes
    => Abs(ValueOf(kf).estimate - ret.measurement) <= 2 * RssiScale

(* C21 as it holds: the same, for measurements within 14 dBm of the initial   *)
(* estimate; for every measurement the estimate is closer to m than 14 % of   *)
(* the distance between m and the initial estimate.                           *)
C21_WithinTwoDbmNearStart ==
    FedTenTimes
    => /\ Abs(ret.measurement - DefaultInitialEstimate) <= 14 * RssiScale
            => Abs(ValueOf(kf).estimate - ret.measurement) <= 2 * RssiScale
       /\ 100 * Abs(ValueOf(kf).estimate - ret.measurement)
            <= 14 * Abs(ret.measurement - DefaultInitialEstimate) + RssiScale

\* the tenth of the test's measurements, -55 dBm
C21_Witness ==
    /\ ret.op = "update"
    /\ ret.measurement = -55 * RssiScale
    /\ ValueOf(kf).sampleCount = 10
    /\ ValueOf(kf).estimate # ret.measurement

-----------------------------------------------------------------------------
(* SpecFilter: a KalmanFilter constructed with the default parameters is      *)
(* updated with measurements that differ from call to call, and reset         *)

FilterOps == 11

FilterMeasurements == { -90 * RssiScale, -30 * RssiScale }

CountedFilter == nops < FilterOps /\ nops' = nops + 1

NextFilter ==
    \/ /\ kf = Null
       /\ NewKalmanFilter(DefaultProcessNoise, DefaultMeasurementNoise,
                          DefaultInitialEstimate, DefaultInitialError)
       /\ UNCHANGED nops
    \/ \E m \in FilterMeasurements : CountedFilter /\ FilterUpdate(m)
    \/ /\ ret.op = "update"
       /\ CountedFilter
       /\ FilterReset(DefaultInitialEstimate)

SpecFilter == Init /\ [][NextFilter]_vars

\* getConfidence() of a filter with the default parameters after its first update
ConfidenceAfterOne ==
    KalmanFilter_getConfidence(
        KalmanFilter_update(
            KalmanFilter_new(DefaultProcessNoise, DefaultMeasurementNoise,
                             DefaultInitialEstimate, DefaultInitialError),
            DefaultInitialEstimate))

(* C22: on a KalmanFilter constructed with the default parameters every       *)
(* update leaves errorCovariance no larger and getConfidence() no smaller     *)
(* than before it, whatever the measurements are; getConfidence() after 10    *)
(* updates is strictly greater than after 1 update.                           *)
C22_UpdateNeverLosesConfidence ==
    /\ [][ ret'.op = "update"
           => /\ ValueOf(kf').errorCovariance <= ValueOf(kf).errorCovariance
              /\ KalmanFilter_getConfidence(ValueOf(kf'))
                   >= KalmanFilter_getConfidence(ValueOf(kf)) ]_vars
    /\ [] ( (kf # Null /\ ValueOf(kf).sampleCount = 10)
            => KalmanFilter_getConfidence(ValueOf(kf)) > ConfidenceAfterOne )

\* ten updates with measurements that were not all the same
C22_Witness ==
    /\ ret.op = "update"
    /\ ValueOf(kf).sampleCount = 10
    /\ ValueOf(kf).estimate > -90 * RssiScale
    /\ ValueOf(kf).estimate < -30 * RssiScale
    /\ ret.measurement = -30 * RssiScale
    /\ ValueOf(kf).estimate < -60 * RssiScale

-----------------------------------------------------------------------------
(* SpecAnyFilter: a KalmanFilter constructed with some Q > 0, R > 0 and an    *)
(* initial error >= 0, and the filter of a DistanceEstimator, are updated and *)
(* reset in any order                                                         *)

AnyFilterOps == 4

\* << processNoise, measurementNoise, initialError >>: the defaults; Q = 0.01,
\* R = 100 and no initial error; Q = 1, R = 0.1; Q = 0.125, R = 4, initial error 2
FilterParameters ==
    { << DefaultProcessNoise, DefaultMeasurementNoise, DefaultInitialError >>,
      << CovScale \div 100, 100 * CovScale, 0 >>,
      << CovScale, CovScale \div 10, DefaultInitialError >>,
      << DefaultProcessNoise, DefaultMeasurementNoise, 2 * CovScale >> }

CountedAnyFilter == nops < AnyFilterOps /\ nops' = nops + 1

NextAnyFilter ==
    \/ \E p \in FilterParameters :
          /\ kf = Null
          /\ NewKalmanFilter(p[1], p[2], DefaultInitialEstimate, p[3])
          /\ UNCHANGED nops
    \/ \E m \in FilterMeasurements : CountedAnyFilter /\ FilterUpdate(m)
    \/ CountedAnyFilter /\ FilterReset(DefaultInitialEstimate)
    \/ est = << >> /\ Construct("BLE") /\ UNCHANGED nops
    \/ \E i \in DOMAIN est, u \in BOOLEAN :
          \E rssi \in {-101 * RssiScale, -90 * RssiScale, -30 * RssiScale} :
             CountedAnyFilter /\ EstimateDistance(i, rssi, u)
    \/ \E i \in DOMAIN est :
          \E c \in CalibrationInputs(ModelOf(est[i], SignalModels)) :
             CountedAnyFilter /\ Calibrate(i, c[1], c[2])
    \/ \E i \in DOMAIN est : CountedAnyFilter /\ Reset(i)

SpecAnyFilter == Init /\ [][NextAnyFilter]_vars

\* the gain KalmanFilter.update computes on filter f lies strictly between 0 and 1
GainIsFraction(f) ==
    LET kalmanGain == KalmanGain(f.errorCovariance + f.Q, f.R)
    IN  0 < kalmanGain /\ kalmanGain < GainScale

\* the call now made updated the filter of estimator i
UpdatesFilterOf(i) ==
    /\ ret'.op = "estimateDistance" /\ ret'.id = i
    /\ ret'.accepted /\ ret'.useFilter

\* the call now made reset the filter of estimator i
ResetsFilterOf(i) ==
    /\ ret'.id = i
    /\ \/ ret'.op = "reset"
       \/ ret'.op = "calibrate" /\ ret'.result = TRUE

(* C23: in every reachable state of a KalmanFilter with Q > 0 and R > 0,      *)
(* used on its own or owned by an estimator, errorCovariance is non-negative, *)
(* the gain of each update is strictly between 0 and 1, and sampleCount is    *)
(* the number of updates applied since construction or the last reset: 0      *)
(* after either, one more after each update, and unchanged by everything else.*)
C23_FilterInvariants ==
    /\ [] ( /\ kf # Null => ValueOf(kf).errorCovariance >= 0
            /\ \A i \in DOMAIN est : est[i].kalmanFilter.errorCovariance >= 0 )
    /\ [][ /\ ret'.op = "newFilter" => ValueOf(kf').sampleCount = 0
           /\ ret'.op = "filterReset" => ValueOf(kf').sampleCount = 0
           /\ ret'.op = "update"
                => /\ GainIsFraction(ValueOf(kf))
                   /\ ret'.kalmanGain = KalmanGain(ValueOf(kf).errorCovariance + ValueOf(kf).Q,
                                                   ValueOf(kf).R)
                   /\ ValueOf(kf').sampleCount = ValueOf(kf).sampleCount + 1
           /\ ret'.op \notin {"newFilter", "filterReset", "update"} => kf' = kf
           /\ \A i \in DOMAIN est' :
                LET count == est'[i].kalmanFilter.sampleCount
                IN  IF i \notin DOMAIN est THEN count = 0
                    ELSE IF ret'.op \in {"newFilter", "filterReset", "update"}
                         THEN count = est[i].kalmanFilter.sampleCount
                    ELSE IF UpdatesFilterOf(i)
                         THEN /\ GainIsFraction(est[i].kalmanFilter)
                              /\ count = est[i].kalmanFilter.sampleCount + 1
                    ELSE IF ResetsFilterOf(i) THEN count = 0
                    ELSE count = est[i].kalmanFilter.sampleCount ]_vars

\* both filters have been updated, the estimator's after a calibration
C23_Witness ==
    /\ kf # Null
    /\ ValueOf(kf).sampleCount = 1
    /\ ValueOf(kf).Q = CovScale \div 100
    /\ est # << >>
    /\ est[1].kalmanFilter.sampleCount = 1
    /\ est[1].kalmanFilter.estimate # InitialSignalModels["BLE"].referenceRssi
    /\ SignalModels # InitialSignalModels

-----------------------------------------------------------------------------
(* The fields of the returned estimate, checked under Spec *)

(* C24: every estimate returned by estimateDistance for an accepted RSSI      *)
(* carries an error field equal to null and a boolean reliable field equal to *)
(* (distance <= model.maxReliableDistance); every rejected estimate carries a *)
(* non-null error string.                                                     *)
C24_ErrorNullOnSuccess ==
    ret.op = "estimateDistance"
    => IF ret.accepted
       THEN /\ "error" \in DOMAIN ret.result
            /\ ret.result.error = Null
            /\ "reliable" \in DOMAIN ret.result
            /\ ret.result.reliable
                 = (ret.locals.distance <= RetModel.maxReliableDistance * DistScale)
       ELSE /\ "error" \in DOMAIN ret.result
            /\ ret.result.error = "RSSI out of valid range"

-----------------------------------------------------------------------------
(* SpecAdapters: AdapterOps start and stop calls on the four adapters, in any *)
(* order, with the platform's callbacks and events in between                 *)

AdapterOps == 5

CountedAdapter == nops < AdapterOps /\ nops' = nops + 1

\* a browser either has navigator.bluetooth.requestLEScan or lacks it
BrowserOffers(requestLEScan) ==
    IF requestLEScan
    THEN platform.bluetooth.controllers > 0 \/ platform.bluetooth.calls = 0
    ELSE platform.bluetooth.controllers = 0

NextAdapters ==
    \/ \E plugin \in BOOLEAN : ret.op = "none" /\ Initialize(plugin) /\ UNCHANGED nops
    \/ CountedAdapter /\ CordovaBLEStartScan
    \/ CountedAdapter /\ CordovaBLEStopScan
    \/ \E success \in BOOLEAN : CordovaBLEStopCallback(success) /\ UNCHANGED nops
    \/ \E le \in BOOLEAN : BrowserOffers(le) /\ CountedAdapter /\ WebBLEStartScan(le)
    \/ \E c \in platform.bluetooth.pending : LEScanGranted(c) /\ UNCHANGED nops
    \/ \E c \in platform.bluetooth.pending : LEScanRejected(c) /\ UNCHANGED nops
    \/ \E chosen \in BOOLEAN : DeviceChooserClosed(chosen) /\ UNCHANGED nops
    \/ ret.op # "advertisementreceived" /\ Advertisement /\ UNCHANGED nops
    \/ CountedAdapter /\ WebBLEStopScan
    \/ CountedAdapter /\ CordovaGeoStartWatching
    \/ CountedAdapter /\ CordovaGeoStopWatching
    \/ CountedAdapter /\ WebGeoStartWatching
    \/ CountedAdapter /\ WebGeoStopWatching

SpecAdapters == Init /\ [][NextAdapters]_vars

\* this.scanning of a BLE adapter, this.watching of a Geo adapter
Active(name) ==
    IF name \in {"CordovaBLE", "WebBLE"} THEN adapters[name].scanning
    ELSE adapters[name].watching

\* the adapter holds no handle: scanAbortController or watchId is null
NoHandle(name) ==
    CASE name = "WebBLE" -> adapters.WebBLE.scanAbortController = Null
      [] name \in {"CordovaGeo", "WebGeo"} -> adapters[name].watchId = Null
      [] OTHER -> TRUE

(* C25: startScan or startWatching called while the adapter's scanning or     *)
(* watching flag is true, and stopScan or stopWatching called while it is     *)
(* false, make no call into the platform API, register no listener, and leave *)
(* the flag, scanAbortController and watchId unchanged.                       *)
C25_RedundantCallsAreNoOps ==
    [][ ( \/ ret'.op = "start" /\ Active(ret'.adapter)
          \/ ret'.op = "stop" /\ ~ Active(ret'.adapter) )
        => /\ platform' = platform
           /\ adapters' = adapters
           /\ ~ ret'.called ]_vars

\* stopScan on a WebBLE that is not scanning but holds a controller, its
\* requestLEScan still pending
C25_Witness ==
    /\ ret.op = "stop"
    /\ ret.adapter = "WebBLE"
    /\ ~ ret.called
    /\ adapters.WebBLE.scanAbortController # Null
    /\ platform.bluetooth.pending # {}

(* C26: whenever stopScan or stopWatching was called while the flag was true  *)
(* and the returned promise has resolved, the flag is false and the handle    *)
(* (scanAbortController, watchId) is null, whichever callback the platform    *)
(* API invoked.                                                               *)
C26_StopEndsStopped ==
    (ret.op \in {"stop", "stopped"} /\ ret.called /\ ret.resolved)
    => ~ Active(ret.adapter) /\ NoHandle(ret.adapter)

(* C29: each advertisementreceived event produces at most one 'device' event  *)
(* on the WebBLE adapter, and whenever scanning is false the adapter holds no *)
(* scanAbortController.                                                       *)
C29_OneDevicePerAdvertisement ==
    /\ ret.op = "advertisementreceived" => ret.devices <= 1
    /\ ~ adapters.WebBLE.scanning => adapters.WebBLE.scanAbortController = Null

-----------------------------------------------------------------------------
(* SpecStorage: StorageOps calls on an initialized IndexedDBStorage           *)

StorageOps == 4

StorageKeyInputs == {"a", "constructor"}

\* 0, false, the empty string, and a non-empty string
StorageValueInputs ==
    { [type |-> "number", literal |-> "0"],
      [type |-> "boolean", literal |-> "false"],
      [type |-> "string", literal |-> ""],
      [type |-> "string", literal |-> "x"] }

BlobIdInputs == {"p"}

BlobInputs == {"B1", "B2"}

CountedStorage == nops < StorageOps /\ nops' = nops + 1

NextStorage ==
    \/ \E hasIndexedDB \in BOOLEAN : StorageInitialize(hasIndexedDB) /\ UNCHANGED nops
    \/ \E k \in StorageKeyInputs : CountedStorage /\ StorageGet(k)
    \/ \E k \in StorageKeyInputs, v \in StorageValueInputs : CountedStorage /\ StorageSet(k, v)
    \/ \E k \in StorageKeyInputs : CountedStorage /\ StorageDelete(k)
    \/ CountedStorage /\ StorageKeys
    \/ CountedStorage /\ StorageClear
    \/ \E id \in BlobIdInputs, blob \in BlobInputs : CountedStorage /\ StorageSaveBlob(id, blob)
    \/ \E id \in BlobIdInputs : CountedStorage /\ StorageGetBlob(id)

SpecStorage == Init /\ [][NextStorage]_vars

(* C27: on an IndexedDBStorage initialized in the in-memory fallback, get(k)  *)
(* returns the value last set under k, whatever it is (0, false and the empty *)
(* string included), until k is overwritten, deleted or cleared, and null for *)
(* a key never set, deleted or cleared; after clear() keys() reports no key,  *)
(* while every blob saved with saveBlob is still returned by getBlob.         *)
C27_StorageRoundTrip ==
    storage.db = "inMemory"
    => /\ ret.op = "get"
            => ret.result = IF ret.key \in DOMAIN written.values
                            THEN written.values[ret.key]
                            ELSE JsNull
       /\ ret.op = "clear" => IndexedDBStorage_keys(storage) = {}
       /\ ret.op = "keys" => ret.result = DOMAIN written.values
       /\ (ret.op = "getBlob" /\ ret.id \in DOMAIN written.blobs)
            => ret.result.literal = written.blobs[ret.id]

-----------------------------------------------------------------------------
(* getFusedEstimate as a query, checked under SpecFusion *)

\* getStats() of every estimator the MultiRadioEstimator owns, by radio type
AllStats(entries, heap) ==
    [k \in 1 .. Len(entries) |->
        [radioType |-> entries[k].radioType, stats |-> getStats(heap[entries[k].id])]]

(* C28: getFusedEstimate changes no owned estimator's reading history, filter *)
(* state or model, so getStats() of every estimator is the same before and    *)
(* after the call, and two consecutive getFusedEstimate calls with no         *)
(* addReading between them return the same distance, confidence, sources and  *)
(* breakdown.                                                                 *)
C28_FusedEstimateIsPure ==
    [][ ret'.op = "getFusedEstimate"
        => /\ est' = est
           /\ SignalModels' = SignalModels
           /\ AllStats(multi', est') = AllStats(multi, est)
           /\ ret.op = "getFusedEstimate" => ret'.result = ret.result ]_vars

-----------------------------------------------------------------------------
(* The tile cache under concurrently handled fetch events *)

\* the number of different tiles requested
TileRequests == 502

\* the number of fetch events handled at a time
TileHandlers == 2

\* tiles that are requested again
RepeatedTiles == {1}

\* tiles whose fetch may fail or be answered by another status than 200
UnreliableTiles == {2}

\* 0 stands for a rejected fetch
FetchOutcomes(request) ==
    IF request \in UnreliableTiles THEN {200, 404, 0} ELSE {200}

\* the size of the cache from which fetch events are handled concurrently;
\* below it a fetch event arrives when the one before has been answered
ConcurrentFrom == 498

InFlight == 1 .. Len(worker.handlers)

\* may another fetch event arrive now
Arrives ==
    Len(worker.handlers) < (IF Len(worker.cache) >= ConcurrentFrom
                            THEN TileHandlers ELSE 1)

NextTiles ==
    \/ /\ nops < TileRequests
       /\ Arrives
       /\ TileFetchEvent(nops + 1)
       /\ nops' = nops + 1
    \/ \E t \in RepeatedTiles :
         /\ t <= nops
         /\ Arrives
         /\ TileFetchEvent(t)
         /\ UNCHANGED nops
    \/ \E h \in InFlight : TileMatch(h) /\ UNCHANGED nops
    \/ \E h \in InFlight :
         \E outcome \in FetchOutcomes(worker.handlers[h].request) :
           TileFetched(h, outcome) /\ UNCHANGED nops
    \/ \E h \in InFlight : TileKeys(h) /\ UNCHANGED nops
    \/ \E h \in InFlight : TileEvict(h) /\ UNCHANGED nops
    \/ \E h \in InFlight : TilePut(h) /\ UNCHANGED nops

SpecTiles == Init /\ [][NextTiles]_vars

(* C30: the tile cache never holds more than MAX_TILE_CACHE_SIZE tiles,       *)
(* however the handlers of concurrently handled tile fetch events interleave. *)
C30_TileCacheBounded ==
    Len(worker.cache) <= MAX_TILE_CACHE_SIZE

====
